---- MODULE Spec2Model ----
(***************************************************************************)
(* Image-processing core of the ComputerGraphics repository: the RGB       *)
(* ImageBuffer (image_buffer.py), the point operations (operations.py),    *)
(* the histogram transforms (histogram.py), the spatial filters            *)
(* (filters.py), the thresholding functions (binarization.py) and the PPM  *)
(* codec (ppm.py).                                                         *)
(*                                                                         *)
(* A Python bytearray is a sequence of integers 0..255; Python index i is  *)
(* TLA+ index i+1.  A Python float that the code produces from small       *)
(* integers is modelled as the exact rational Num/Den; where IEEE double   *)
(* arithmetic differs from the exact value (a product that should be an    *)
(* integer and falls one ulp short before int() truncates it) the          *)
(* difference is tabulated from the expression in the source.              *)
(***************************************************************************)
EXTENDS Integers, Sequences, FiniteSets, TLC

VARIABLES
    bufs,      \* slot -> ImageBuffer object (width, height, max_value, data reference) or NoBuf
    heap,      \* reference -> bytearray contents (a sequence of 0..255); <<>> when unused
    last,      \* the last call made: its name, arguments, outcome
    disk,      \* the bytes of the PPM file on disk
    handle,    \* the file object of the codec call in progress: open or closed, position
    io,        \* the codec call in progress: where it is and its locals
    polygon,   \* Polygon.points of the polygon object: a sequence of vertices
    frame,     \* the binomial_coefficient call in progress: where it is and its locals
    iter,      \* the threshold_mean_iterative call in progress: where it is and its locals
    search     \* the threshold search in progress (entropy, minimum error, fuzzy): its locals

vars == <<bufs, heap, last, disk, handle, io, polygon, frame, iter, search>>

----------------------------------------------------------------------------
(* Bounds of the model *)

\* most pixels of an image the model builds (width*height <= MaxPixels)
MaxPixels == 2
Slots == {"a", "b"}
Refs == 1..(Cardinality(Slots) + 1)
NoBuf == [width |-> 0, height |-> 0, max_value |-> 0, ref |-> 0]
None == <<>>

\* colours the model draws pixels from
Palette == { <<0, 0, 0>>, <<255, 128, 0>>, <<10, 10, 10>>, <<200, 200, 200>>, <<35, 32, 13>> }
\* channel depths the model constructs buffers with
Depths == {255, 100}
\* dimensions tried, valid and invalid
Dims == { d \in (-1..MaxPixels) \X (-1..MaxPixels) : d[1] * d[2] <= MaxPixels }

----------------------------------------------------------------------------
(* Python arithmetic *)

Max(a, b) == IF a >= b THEN a ELSE b
Min(a, b) == IF a <= b THEN a ELSE b

\* int(x) for x = n/d, d > 0: truncation toward zero
Trunc(n, d) == IF n >= 0 THEN n \div d ELSE -((-n) \div d)

\* round(x) for x = n/d, d > 0: Python 3 rounds half to even
RoundHalfEven(n, d) ==
    LET q == n \div d
        r == n - q * d
    IN  IF 2 * r < d THEN q
        ELSE IF 2 * r > d THEN q + 1
        ELSE IF q % 2 = 0 THEN q ELSE q + 1

----------------------------------------------------------------------------
(* image_buffer.py *)

\* a clamp that truncates where the code rounds: max(0, min(max_value, int(value)))
clamp_truncating(max_value, n, d) == Max(0, Min(max_value, Trunc(n, d)))

\* ImageBuffer.clamp(value) with value = n/d
clamp(max_value, n, d) == Max(0, Min(max_value, RoundHalfEven(n, d)))

\* ImageBuffer._validate_coordinates: TRUE when no IndexError is raised
_validate_coordinates(img, x, y) ==
    0 <= x /\ x < img.width /\ 0 <= y /\ y < img.height

\* ImageBuffer._offset, as a TLA+ (1-based) index of the red sample
_offset(img, x, y) == (y * img.width + x) * 3 + 1

\* the bytearray a buffer object refers to
DataOf(img) == heap[img.ref]

\* ImageBuffer(width, height, max_value, data) over a bytearray built by the callee:
\* ref 0 stands for "a bytearray no other object refers to"
NewBuffer(width, height, max_value, data) ==
    [ok |-> TRUE, err |-> "", width |-> width, height |-> height,
     max_value |-> max_value, data |-> data, ref |-> 0]

\* a raised exception
Raise(err) ==
    [ok |-> FALSE, err |-> err, width |-> 0, height |-> 0, max_value |-> 0,
     data |-> <<>>, ref |-> 0]

\* a from_dimensions whose fill loop starts at the second pixel
from_dimensions_from_second(width, height, color, max_value) ==
    IF width <= 0 \/ height <= 0
    THEN Raise("ValueError")
    ELSE LET c == IF color = None THEN <<0, 0, 0>> ELSE color
             n == width * height * 3
         IN  NewBuffer(width, height, max_value,
                       [i \in 1..n |-> IF i <= 3 THEN 0 ELSE c[((i - 1) % 3) + 1]])

\* ImageBuffer.from_dimensions: the buffer it builds, or the error it raises
from_dimensions(width, height, color, max_value) ==
    IF width <= 0 \/ height <= 0
    THEN Raise("ValueError")
    ELSE LET c == IF color = None THEN <<0, 0, 0>> ELSE color
             n == width * height * 3
         IN  NewBuffer(width, height, max_value, [i \in 1..n |-> c[((i - 1) % 3) + 1]])

\* data.extend([r, g, b]) for each pixel (r, g, b) in turn
Flatten(pixels) ==
    [i \in 1..(3 * Len(pixels)) |-> pixels[((i - 1) \div 3) + 1][((i - 1) % 3) + 1]]

\* ImageBuffer.from_pixels
from_pixels(width, height, pixels, max_value) ==
    LET data == Flatten(pixels)
    IN  IF Len(data) # width * height * 3
        THEN Raise("ValueError")
        ELSE NewBuffer(width, height, max_value, data)

\* a copy that passes self.data on instead of building a new bytearray
copy_sharing(img, data) ==
    [ok |-> TRUE, err |-> "", width |-> img.width, height |-> img.height,
     max_value |-> img.max_value, data |-> data, ref |-> img.ref]

\* ImageBuffer.copy: bytearray(self.data) builds a new bytearray
copy(img, data) == NewBuffer(img.width, img.height, img.max_value, data)

\* ImageBuffer.get_pixel
get_pixel(img, data, x, y) ==
    IF ~_validate_coordinates(img, x, y)
    THEN [ok |-> FALSE, err |-> "IndexError", pixel |-> <<>>]
    ELSE LET idx == _offset(img, x, y)
         IN  [ok |-> TRUE, err |-> "", pixel |-> <<data[idx], data[idx + 1], data[idx + 2]>>]

\* ImageBuffer.set_pixel: the bytearray after the call; color channels are n/d pairs
set_pixel(img, data, x, y, color) ==
    IF ~_validate_coordinates(img, x, y)
    THEN [ok |-> FALSE, err |-> "IndexError", data |-> data]
    ELSE LET idx == _offset(img, x, y)
         IN  [ok |-> TRUE, err |-> "",
              data |-> [data EXCEPT
                          ![idx] = clamp(img.max_value, color[1][1], color[1][2]),
                          ![idx + 1] = clamp(img.max_value, color[2][1], color[2][2]),
                          ![idx + 2] = clamp(img.max_value, color[3][1], color[3][2])]]

----------------------------------------------------------------------------
(* Sequences *)

RECURSIVE SumFrom(_, _)
SumFrom(q, k) == IF k > Len(q) THEN 0 ELSE q[k] + SumFrom(q, k + 1)

\* sum(q)
SumSeq(q) == SumFrom(q, 1)

\* indices (1-based) of the samples of one channel: range(channel, len(data), 3)
ChannelIdx(data, channel) == { i \in 1..Len(data) : (i - 1) % 3 = channel }

\* the pixel (r, g, b) whose red sample is at 1-based index i
PixelAt(data, i) == <<data[i], data[i + 1], data[i + 2]>>

\* 1-based indices of the red samples: range(0, len(data), 3)
PixelIdx(data) == { i \in 1..Len(data) : (i - 1) % 3 = 0 }

----------------------------------------------------------------------------
(* IEEE double arithmetic of the source's expressions *)

\* (k, d), 0 <= k <= d <= 300, for which the double product k * (255.0 / d)
\* is one ulp below the integer k*255/d, so that int() yields one less
ScaleShort == {
    <<25, 25>>, <<29, 29>>, <<50, 50>>, <<53, 53>>, <<58, 58>>, <<91, 91>>, <<93, 93>>, <<100, 100>>,
    <<103, 103>>, <<21, 105>>, <<42, 105>>, <<49, 105>>, <<77, 105>>, <<84, 105>>, <<91, 105>>, <<98, 105>>,
    <<105, 105>>, <<106, 106>>, <<116, 116>>, <<39, 117>>, <<78, 117>>, <<117, 117>>, <<121, 121>>, <<182, 182>>,
    <<185, 185>>, <<186, 186>>, <<11, 187>>, <<22, 187>>, <<44, 187>>, <<77, 187>>, <<88, 187>>, <<143, 187>>,
    <<154, 187>>, <<165, 187>>, <<176, 187>>, <<187, 187>>, <<191, 191>>, <<200, 200>>, <<203, 203>>, <<206, 206>>,
    <<207, 207>>, <<42, 210>>, <<84, 210>>, <<98, 210>>, <<154, 210>>, <<168, 210>>, <<182, 210>>, <<196, 210>>,
    <<210, 210>>, <<212, 212>>, <<217, 217>>, <<13, 221>>, <<26, 221>>, <<39, 221>>, <<52, 221>>, <<78, 221>>,
    <<91, 221>>, <<104, 221>>, <<143, 221>>, <<156, 221>>, <<169, 221>>, <<182, 221>>, <<195, 221>>, <<208, 221>>,
    <<221, 221>>, <<232, 232>>, <<233, 233>>, <<78, 234>>, <<156, 234>>, <<234, 234>>, <<47, 235>>, <<94, 235>>,
    <<188, 235>>, <<235, 235>>, <<242, 242>> }

\* int(k * scale) with scale = 255.0 / d
ScaleTo255(k, d) ==
    Trunc(k * 255, d) - (IF <<k, d>> \in ScaleShort THEN 1 ELSE 0)

\* (r, g, b) for which the double sum 0.2126*r + 0.7152*g + 0.0722*b is below
\* the integer it equals exactly, so that int() yields one less
LumaShort == {
    <<0, 28, 152>>, <<0, 136, 24>>, <<1, 110, 57>>, <<1, 111, 241>>, <<1, 138, 209>>, <<2, 57, 122>>, <<2, 193, 146>>,
    <<2, 220, 114>>, <<2, 247, 82>>, <<3, 112, 59>>, <<3, 139, 27>>, <<3, 140, 211>>, <<3, 221, 115>>, <<4, 113, 60>>,
    <<4, 114, 244>>, <<4, 140, 28>>, <<4, 141, 212>>, <<4, 249, 84>>, <<5, 5, 5>>, <<5, 196, 149>>, <<5, 223, 117>>,
    <<5, 250, 85>>, <<6, 61, 126>>, <<6, 115, 62>>, <<6, 142, 30>>, <<6, 143, 214>>, <<6, 224, 118>>, <<7, 7, 7>>,
    <<7, 89, 95>>, <<7, 252, 87>>, <<8, 63, 128>>, <<8, 171, 0>>, <<8, 199, 152>>, <<8, 226, 120>>, <<8, 253, 88>>,
    <<9, 91, 97>>, <<9, 118, 65>>, <<9, 119, 249>>, <<9, 145, 33>>, <<9, 146, 217>>, <<9, 172, 1>>, <<9, 227, 121>>,
    <<10, 10, 10>>, <<10, 147, 218>>, <<10, 255, 90>>, <<11, 66, 131>>, <<11, 147, 35>>, <<11, 174, 3>>, <<12, 94, 100>>,
    <<12, 121, 68>>, <<12, 122, 252>>, <<12, 148, 36>>, <<12, 149, 220>>, <<12, 175, 4>>, <<12, 230, 124>>, <<13, 13, 13>>,
    <<13, 95, 101>>, <<13, 150, 221>>, <<13, 176, 5>>, <<13, 204, 157>>, <<14, 14, 14>>, <<14, 69, 134>>, <<14, 150, 38>>,
    <<14, 178, 190>>, <<15, 70, 135>>, <<15, 124, 71>>, <<15, 152, 223>>, <<15, 179, 191>>, <<15, 233, 127>>, <<16, 98, 104>>,
    <<16, 179, 8>>, <<16, 207, 160>>, <<17, 45, 169>>, <<17, 126, 73>>, <<17, 153, 41>>, <<18, 182, 194>>, <<18, 236, 130>>,
    <<19, 101, 107>>, <<19, 182, 11>>, <<19, 210, 163>>, <<20, 20, 20>>, <<20, 102, 108>>, <<20, 129, 76>>, <<20, 156, 44>>,
    <<20, 157, 228>>, <<21, 49, 173>>, <<21, 157, 45>>, <<21, 185, 197>>, <<21, 239, 133>>, <<22, 185, 14>>, <<22, 213, 166>>,
    <<23, 51, 175>>, <<23, 105, 111>>, <<23, 132, 79>>, <<23, 159, 47>>, <<23, 160, 231>>, <<24, 133, 80>>, <<24, 160, 48>>,
    <<24, 188, 200>>, <<24, 242, 136>>, <<25, 80, 145>>, <<25, 188, 17>>, <<25, 216, 169>>, <<26, 26, 26>>, <<26, 54, 178>>,
    <<26, 190, 202>>, <<27, 82, 147>>, <<27, 136, 83>>, <<27, 163, 51>>, <<27, 190, 19>>, <<27, 191, 203>>, <<27, 245, 139>>,
    <<28, 28, 28>>, <<28, 56, 180>>, <<28, 164, 52>>, <<28, 191, 20>>, <<28, 219, 172>>, <<29, 193, 205>>, <<30, 85, 150>>,
    <<30, 112, 118>>, <<30, 139, 86>>, <<30, 193, 22>>, <<30, 221, 174>>, <<30, 248, 142>>, <<31, 140, 87>>, <<31, 167, 55>>,
    <<31, 194, 23>>, <<31, 222, 175>>, <<31, 249, 143>>, <<32, 196, 208>>, <<33, 61, 185>>, <<33, 115, 121>>, <<33, 142, 89>>,
    <<34, 61, 2>>, <<34, 143, 90>>, <<34, 171, 242>>, <<34, 197, 26>>, <<34, 225, 178>>, <<34, 252, 146>>, <<35, 199, 211>>,
    <<36, 63, 4>>, <<36, 91, 156>>, <<36, 118, 124>>, <<36, 145, 92>>, <<37, 64, 5>>, <<37, 174, 245>>, <<37, 200, 29>>,
    <<37, 228, 181>>, <<37, 255, 149>>, <<38, 147, 94>>, <<38, 202, 214>>, <<39, 94, 159>>, <<39, 121, 127>>, <<39, 148, 95>>,
    <<40, 40, 40>>, <<40, 67, 8>>, <<40, 177, 248>>, <<40, 203, 32>>, <<40, 204, 216>>, <<40, 230, 0>>, <<40, 231, 184>>,
    <<41, 68, 9>>, <<41, 150, 97>>, <<41, 204, 33>>, <<42, 97, 162>>, <<42, 124, 130>>, <<42, 151, 98>>, <<42, 178, 66>>,
    <<43, 43, 43>>, <<43, 179, 67>>, <<43, 180, 251>>, <<43, 206, 35>>, <<43, 207, 219>>, <<43, 233, 3>>, <<43, 234, 187>>,
    <<44, 71, 12>>, <<44, 126, 132>>, <<44, 153, 100>>, <<44, 207, 36>>, <<44, 235, 188>>, <<45, 100, 165>>, <<45, 154, 101>>,
    <<45, 235, 5>>, <<46, 182, 70>>, <<46, 183, 254>>, <<46, 209, 38>>, <<46, 210, 222>>, <<46, 236, 6>>, <<46, 237, 190>>,
    <<47, 102, 167>>, <<47, 129, 135>>, <<47, 210, 39>>, <<47, 238, 191>>, <<48, 49, 232>>, <<48, 75, 16>>, <<48, 238, 8>>,
    <<49, 49, 49>>, <<49, 239, 9>>, <<50, 105, 170>>, <<50, 132, 138>>, <<50, 213, 42>>, <<50, 241, 194>>, <<51, 51, 51>>,
    <<51, 78, 19>>, <<51, 133, 139>>, <<51, 241, 11>>, <<52, 52, 52>>, <<53, 135, 141>>, <<53, 216, 45>>, <<53, 244, 197>>,
    <<54, 82, 206>>, <<54, 136, 142>>, <<54, 190, 78>>, <<54, 244, 14>>, <<55, 164, 111>>, <<56, 56, 56>>, <<56, 138, 144>>,
    <<56, 219, 48>>, <<56, 247, 200>>, <<57, 85, 209>>, <<57, 112, 177>>, <<57, 139, 145>>, <<57, 193, 81>>, <<57, 221, 233>>,
    <<57, 247, 17>>, <<58, 31, 90>>, <<58, 140, 146>>, <<58, 167, 114>>, <<58, 249, 202>>, <<59, 59, 59>>, <<59, 222, 51>>,
    <<59, 249, 19>>, <<59, 250, 203>>, <<60, 115, 180>>, <<60, 196, 84>>, <<60, 224, 236>>, <<60, 250, 20>>, <<61, 34, 93>>,
    <<61, 143, 149>>, <<61, 170, 117>>, <<61, 252, 205>>, <<62, 89, 30>>, <<62, 171, 118>>, <<62, 225, 54>>, <<62, 252, 22>>,
    <<62, 253, 206>>, <<63, 63, 63>>, <<63, 91, 215>>, <<63, 118, 183>>, <<63, 199, 87>>, <<63, 227, 239>>, <<63, 253, 23>>,
    <<64, 91, 32>>, <<64, 119, 184>>, <<64, 173, 120>>, <<64, 255, 208>>, <<65, 119, 1>>, <<65, 174, 121>>, <<65, 228, 57>>,
    <<65, 255, 25>>, <<66, 94, 218>>, <<66, 121, 186>>, <<66, 202, 90>>, <<66, 230, 242>>, <<67, 176, 123>>, <<68, 95, 36>>,
    <<68, 122, 4>>, <<68, 177, 124>>, <<69, 70, 253>>, <<69, 97, 221>>, <<69, 124, 189>>, <<69, 205, 93>>, <<69, 233, 245>>,
    <<71, 98, 39>>, <<71, 125, 7>>, <<71, 126, 191>>, <<72, 126, 8>>, <<72, 208, 96>>, <<72, 235, 64>>, <<72, 236, 248>>,
    <<74, 47, 106>>, <<74, 101, 42>>, <<74, 102, 226>>, <<74, 128, 10>>, <<74, 129, 194>>, <<75, 129, 11>>, <<75, 157, 163>>,
    <<75, 211, 99>>, <<75, 238, 67>>, <<75, 239, 251>>, <<77, 104, 45>>, <<77, 105, 229>>, <<77, 131, 13>>, <<77, 132, 197>>,
    <<78, 51, 110>>, <<78, 160, 166>>, <<78, 214, 102>>, <<78, 241, 70>>, <<78, 242, 254>>, <<79, 133, 15>>, <<80, 80, 80>>,
    <<80, 108, 232>>, <<80, 134, 16>>, <<81, 54, 113>>, <<81, 163, 169>>, <<81, 190, 137>>, <<81, 217, 105>>, <<81, 244, 73>>,
    <<82, 136, 18>>, <<83, 83, 83>>, <<83, 111, 235>>, <<83, 137, 19>>, <<84, 166, 172>>, <<84, 193, 140>>, <<84, 220, 108>>,
    <<84, 247, 76>>, <<85, 112, 53>>, <<85, 139, 21>>, <<85, 140, 205>>, <<85, 221, 109>>, <<86, 86, 86>>, <<86, 114, 238>>,
    <<86, 249, 78>>, <<87, 196, 143>>, <<87, 223, 111>>, <<88, 115, 56>>, <<88, 142, 24>>, <<88, 143, 208>>, <<88, 224, 112>>,
    <<89, 89, 89>>, <<89, 252, 81>>, <<90, 172, 178>>, <<90, 253, 82>>, <<91, 118, 59>>, <<91, 146, 211>>, <<91, 227, 115>>,
    <<92, 10, 4>>, <<92, 119, 60>>, <<92, 255, 84>>, <<93, 147, 29>>, <<94, 121, 62>>, <<94, 149, 214>>, <<94, 230, 118>>,
    <<95, 95, 95>>, <<95, 204, 151>>, <<96, 150, 32>>, <<96, 178, 184>>, <<97, 70, 129>>, <<97, 124, 65>>, <<97, 179, 185>>,
    <<97, 233, 121>>, <<98, 98, 98>>, <<98, 179, 2>>, <<98, 207, 154>>, <<99, 126, 67>>, <<99, 153, 35>>, <<99, 235, 123>>,
    <<100, 182, 188>>, <<100, 236, 124>>, <<101, 101, 101>>, <<101, 156, 221>>, <<101, 182, 5>>, <<101, 210, 157>>, <<102, 102, 102>>,
    <<102, 156, 38>>, <<103, 157, 39>>, <<103, 185, 191>>, <<103, 239, 127>>, <<104, 104, 104>>, <<104, 185, 8>>, <<104, 213, 160>>,
    <<105, 105, 105>>, <<105, 159, 41>>, <<106, 133, 74>>, <<106, 242, 130>>, <<107, 80, 139>>, <<107, 107, 107>>, <<107, 188, 11>>,
    <<107, 216, 163>>, <<108, 190, 196>>, <<109, 82, 141>>, <<109, 136, 77>>, <<109, 163, 45>>, <<109, 191, 197>>, <<110, 191, 14>>,
    <<110, 219, 166>>, <<111, 193, 199>>, <<112, 85, 144>>, <<112, 112, 112>>, <<112, 193, 16>>, <<112, 221, 168>>, <<112, 248, 136>>,
    <<113, 59, 177>>, <<113, 140, 81>>, <<113, 194, 17>>, <<113, 222, 169>>, <<113, 249, 137>>, <<114, 33, 210>>, <<114, 196, 202>>,
    <<115, 115, 115>>, <<116, 34, 28>>, <<116, 62, 180>>, <<116, 143, 84>>, <<116, 171, 236>>, <<116, 197, 20>>, <<116, 225, 172>>,
    <<116, 252, 140>>, <<117, 199, 205>>, <<118, 91, 150>>, <<118, 118, 118>>, <<119, 146, 87>>, <<119, 174, 239>>, <<119, 200, 23>>,
    <<119, 228, 175>>, <<119, 255, 143>>, <<120, 147, 88>>, <<120, 202, 208>>, <<121, 66, 1>>, <<121, 94, 153>>, <<122, 40, 34>>,
    <<122, 68, 186>>, <<122, 149, 90>>, <<122, 177, 242>>, <<122, 203, 26>>, <<122, 204, 210>>, <<122, 231, 178>>, <<123, 204, 27>>,
    <<123, 205, 211>>, <<124, 69, 4>>, <<124, 97, 156>>, <<124, 178, 60>>, <<125, 71, 189>>, <<125, 152, 93>>, <<125, 180, 245>>,
    <<126, 126, 126>>, <<126, 207, 30>>, <<126, 208, 214>>, <<126, 235, 182>>, <<128, 182, 64>>, <<128, 209, 32>>, <<128, 210, 216>>,
    <<128, 237, 184>>, <<129, 102, 161>>, <<129, 210, 33>>, <<129, 238, 185>>, <<130, 75, 10>>, <<130, 238, 2>>, <<131, 158, 99>>,
    <<131, 186, 251>>, <<131, 239, 3>>, <<132, 213, 36>>, <<132, 241, 188>>, <<133, 51, 45>>, <<133, 78, 13>>, <<133, 241, 5>>,
    <<135, 190, 255>>, <<135, 216, 39>>, <<135, 244, 191>>, <<136, 81, 16>>, <<136, 190, 72>>, <<136, 244, 8>>, <<137, 28, 81>>,
    <<137, 164, 105>>, <<138, 219, 42>>, <<138, 247, 194>>, <<139, 84, 19>>, <<139, 112, 171>>, <<139, 193, 75>>, <<139, 221, 227>>,
    <<139, 247, 11>>, <<140, 167, 108>>, <<140, 249, 196>>, <<141, 222, 45>>, <<141, 249, 13>>, <<141, 250, 197>>, <<142, 115, 174>>,
    <<142, 196, 78>>, <<142, 224, 230>>, <<142, 250, 14>>, <<143, 34, 87>>, <<143, 170, 111>>, <<143, 252, 199>>, <<144, 171, 112>>,
    <<144, 252, 16>>, <<145, 63, 57>>, <<145, 91, 209>>, <<145, 118, 177>>, <<145, 199, 81>>, <<145, 227, 233>>, <<145, 253, 17>>,
    <<146, 37, 90>>, <<146, 91, 26>>, <<146, 119, 178>>, <<146, 173, 114>>, <<146, 255, 202>>, <<147, 228, 51>>, <<148, 66, 60>>,
    <<148, 94, 212>>, <<148, 202, 84>>, <<148, 230, 236>>, <<149, 176, 117>>, <<150, 68, 62>>, <<150, 95, 30>>, <<150, 177, 118>>,
    <<151, 70, 247>>, <<151, 205, 87>>, <<151, 233, 239>>, <<152, 179, 120>>, <<153, 71, 65>>, <<153, 98, 33>>, <<153, 125, 1>>,
    <<153, 207, 89>>, <<153, 234, 57>>, <<153, 235, 241>>, <<154, 45, 98>>, <<154, 73, 250>>, <<154, 126, 2>>, <<154, 208, 90>>,
    <<154, 235, 58>>, <<154, 236, 242>>, <<155, 182, 123>>, <<156, 102, 220>>, <<156, 128, 4>>, <<157, 48, 101>>, <<157, 76, 253>>,
    <<157, 129, 5>>, <<157, 157, 157>>, <<157, 211, 93>>, <<157, 238, 61>>, <<157, 239, 245>>, <<159, 105, 223>>, <<159, 131, 7>>,
    <<160, 51, 104>>, <<160, 132, 8>>, <<160, 160, 160>>, <<160, 241, 64>>, <<161, 133, 9>>, <<162, 80, 74>>, <<162, 108, 226>>,
    <<163, 54, 107>>, <<163, 190, 131>>, <<163, 217, 99>>, <<163, 245, 251>>, <<164, 137, 196>>, <<165, 83, 77>>, <<166, 138, 14>>,
    <<166, 166, 166>>, <<166, 247, 70>>, <<167, 112, 47>>, <<167, 140, 199>>, <<167, 221, 103>>, <<167, 249, 255>>, <<168, 86, 80>>,
    <<168, 249, 72>>, <<169, 196, 137>>, <<169, 223, 105>>, <<170, 115, 50>>, <<170, 143, 202>>, <<170, 224, 106>>, <<171, 89, 83>>,
    <<171, 252, 75>>, <<172, 144, 20>>, <<172, 172, 172>>, <<172, 253, 76>>, <<173, 118, 53>>, <<173, 146, 205>>, <<173, 227, 109>>,
    <<174, 119, 54>>, <<174, 255, 78>>, <<175, 147, 23>>, <<176, 121, 56>>, <<176, 149, 208>>, <<176, 230, 112>>, <<177, 95, 89>>,
    <<177, 150, 209>>, <<177, 204, 145>>, <<178, 150, 26>>, <<178, 178, 178>>, <<179, 70, 123>>, <<179, 152, 211>>, <<179, 179, 179>>,
    <<179, 233, 115>>, <<180, 98, 92>>, <<180, 207, 148>>, <<181, 153, 29>>, <<181, 235, 117>>, <<182, 155, 214>>, <<182, 236, 118>>,
    <<183, 47, 159>>, <<183, 101, 95>>, <<183, 128, 63>>, <<183, 156, 215>>, <<183, 210, 151>>, <<184, 20, 8>>, <<184, 102, 96>>,
    <<184, 156, 32>>, <<184, 238, 120>>, <<185, 157, 33>>, <<185, 185, 185>>, <<186, 104, 98>>, <<186, 185, 2>>, <<186, 213, 154>>,
    <<187, 105, 99>>, <<187, 133, 251>>, <<187, 159, 35>>, <<187, 241, 123>>, <<188, 242, 124>>, <<189, 107, 101>>, <<189, 188, 5>>,
    <<189, 216, 157>>, <<190, 162, 38>>, <<190, 190, 190>>, <<191, 82, 135>>, <<191, 163, 39>>, <<191, 191, 191>>, <<192, 56, 168>>,
    <<192, 110, 104>>, <<192, 191, 8>>, <<192, 219, 160>>, <<193, 193, 193>>, <<194, 85, 138>>, <<194, 193, 10>>, <<194, 221, 162>>,
    <<194, 248, 130>>, <<195, 59, 171>>, <<195, 140, 75>>, <<195, 194, 11>>, <<195, 222, 163>>, <<195, 249, 131>>, <<196, 196, 196>>,
    <<198, 62, 174>>, <<198, 89, 142>>, <<198, 143, 78>>, <<198, 171, 230>>, <<198, 197, 14>>, <<198, 225, 166>>, <<198, 252, 134>>,
    <<199, 199, 199>>, <<200, 91, 144>>, <<201, 146, 81>>, <<201, 174, 233>>, <<201, 255, 137>>, <<202, 147, 82>>, <<202, 202, 202>>,
    <<203, 94, 147>>, <<204, 68, 180>>, <<204, 203, 20>>, <<204, 204, 204>>, <<204, 231, 172>>, <<205, 204, 21>>, <<205, 205, 205>>,
    <<206, 97, 150>>, <<206, 178, 54>>, <<207, 71, 183>>, <<207, 152, 87>>, <<207, 180, 239>>, <<208, 126, 120>>, <<208, 207, 24>>,
    <<208, 208, 208>>, <<208, 235, 176>>, <<209, 72, 1>>, <<209, 100, 153>>, <<210, 74, 186>>, <<210, 182, 58>>, <<210, 209, 26>>,
    <<210, 210, 210>>, <<210, 237, 178>>, <<211, 129, 123>>, <<211, 210, 27>>, <<211, 211, 211>>, <<211, 238, 179>>, <<212, 75, 4>>,
    <<213, 77, 189>>, <<213, 158, 93>>, <<213, 186, 245>>, <<214, 213, 30>>, <<214, 214, 214>>, <<214, 241, 182>>, <<215, 78, 7>>,
    <<217, 190, 249>>, <<217, 216, 33>>, <<217, 244, 185>>, <<218, 81, 10>>, <<218, 136, 130>>, <<218, 190, 66>>, <<218, 244, 2>>,
    <<219, 164, 99>>, <<220, 193, 252>>, <<221, 84, 13>>, <<221, 193, 69>>, <<221, 221, 221>>, <<221, 247, 5>>, <<222, 167, 102>>,
    <<222, 221, 38>>, <<222, 249, 190>>, <<223, 222, 39>>, <<223, 250, 191>>, <<224, 33, 80>>, <<224, 61, 232>>, <<224, 87, 16>>,
    <<224, 142, 136>>, <<224, 196, 72>>, <<224, 224, 224>>, <<224, 250, 8>>, <<225, 170, 105>>, <<225, 224, 41>>, <<225, 252, 193>>,
    <<226, 171, 106>>, <<226, 252, 10>>, <<227, 90, 19>>, <<227, 199, 75>>, <<227, 227, 227>>, <<227, 253, 11>>, <<228, 91, 20>>,
    <<228, 119, 172>>, <<228, 173, 108>>, <<228, 255, 196>>, <<229, 228, 45>>, <<230, 202, 78>>, <<230, 230, 230>>, <<231, 176, 111>>,
    <<232, 68, 56>>, <<232, 95, 24>>, <<232, 177, 112>>, <<233, 70, 241>>, <<233, 205, 81>>, <<233, 233, 233>>, <<234, 125, 178>>,
    <<234, 179, 114>>, <<236, 45, 92>>, <<236, 73, 244>>, <<236, 208, 84>>, <<236, 235, 52>>, <<236, 236, 236>>, <<237, 182, 117>>,
    <<238, 102, 214>>, <<239, 211, 87>>, <<239, 239, 239>>, <<240, 131, 184>>, <<240, 185, 120>>, <<242, 51, 98>>, <<242, 132, 2>>,
    <<242, 160, 154>>, <<242, 241, 58>>, <<243, 133, 3>>, <<243, 188, 123>>, <<244, 80, 68>>, <<245, 54, 101>>, <<245, 190, 125>>,
    <<245, 217, 93>>, <<245, 245, 245>>, <<247, 83, 71>>, <<248, 57, 104>>, <<248, 138, 8>>, <<248, 166, 160>>, <<248, 247, 64>>,
    <<249, 112, 41>>, <<249, 140, 193>>, <<249, 221, 97>>, <<249, 249, 249>>, <<250, 249, 66>>, <<251, 60, 107>>, <<251, 115, 227>>,
    <<251, 196, 131>>, <<251, 223, 99>>, <<251, 251, 251>>, <<252, 143, 196>>, <<252, 224, 100>>, <<252, 252, 252>>, <<253, 89, 77>>,
    <<253, 252, 69>>, <<255, 146, 199>>, <<255, 227, 103>>, <<255, 255, 255>> }

\* int(0.2126 * r + 0.7152 * g + 0.0722 * b)
Luminance(r, g, b) ==
    ((2126 * r + 7152 * g + 722 * b) \div 10000)
        - (IF <<r, g, b>> \in LumaShort THEN 1 ELSE 0)

----------------------------------------------------------------------------
(* operations.py *)

\* a byte of a bytearray
Byte == 0..255

\* _scalar_point_op: func maps a byte to the rational <<n, d>>, d > 0
_scalar_point_op(img, data, func) ==
    NewBuffer(img.width, img.height, img.max_value,
              [i \in 1..Len(data) |-> clamp(img.max_value, func[data[i]][1], func[data[i]][2])])

\* channel + value, value = v[1]/v[2]
add_constant(img, data, v) ==
    _scalar_point_op(img, data, [channel \in Byte |-> <<channel * v[2] + v[1], v[2]>>])

subtract_constant(img, data, v) ==
    _scalar_point_op(img, data, [channel \in Byte |-> <<channel * v[2] - v[1], v[2]>>])

multiply(img, data, f) ==
    _scalar_point_op(img, data, [channel \in Byte |-> <<channel * f[1], f[2]>>])

divide(img, data, dv) ==
    IF dv[1] = 0 THEN Raise("ZeroDivisionError")
    ELSE _scalar_point_op(img, data,
             [channel \in Byte |-> IF dv[1] > 0 THEN <<channel * dv[2], dv[1]>>
                                   ELSE <<-(channel * dv[2]), -dv[1]>>])

change_brightness(img, data, delta) == add_constant(img, data, delta)

linear_color_scale(img, data, sr, sg, sb) ==
    LET sc(i) == IF (i - 1) % 3 = 0 THEN sr ELSE IF (i - 1) % 3 = 1 THEN sg ELSE sb
    IN  NewBuffer(img.width, img.height, img.max_value,
                  [i \in 1..Len(data) |-> clamp(img.max_value, data[i] * sc(i)[1], sc(i)[2])])

\* ImageBuffer.apply_point_operation: func maps <<r, g, b>> to an integer triple
apply_point_operation(img, data, func) ==
    NewBuffer(img.width, img.height, img.max_value,
              [i \in 1..Len(data) |->
                  LET base == i - ((i - 1) % 3)
                      px == func[<<data[base], data[base + 1], data[base + 2]>>]
                  IN  clamp(img.max_value, px[((i - 1) % 3) + 1], 1)])

grayscale_average(img, data) ==
    apply_point_operation(img, data,
        [p \in Byte \X Byte \X Byte |->
            LET v == Trunc(p[1] + p[2] + p[3], 3) IN <<v, v, v>>])

grayscale_luminance(img, data) ==
    apply_point_operation(img, data,
        [p \in Byte \X Byte \X Byte |->
            LET v == Luminance(p[1], p[2], p[3]) IN <<v, v, v>>])

----------------------------------------------------------------------------
(* histogram.py *)

compute_histogram(data, channel) ==
    LET idx == ChannelIdx(data, channel)
        vals == { data[i] : i \in idx }
    IN  [v \in 0..255 |-> IF v \in vals THEN Cardinality({ i \in idx : data[i] = v }) ELSE 0]

compute_histogram_grayscale(data) ==
    LET idx == PixelIdx(data)
        gray == [i \in idx |-> Luminance(data[i], data[i + 1], data[i + 2])]
        vals == { gray[i] : i \in idx }
    IN  [v \in 0..255 |-> IF v \in vals THEN Cardinality({ i \in idx : gray[i] = v }) ELSE 0]

\* intensities with a nonzero count
Occupied(hist) == { v \in 0..255 : hist[v] > 0 }

SetMin(S) == CHOOSE v \in S : \A u \in S : v <= u
SetMax(S) == CHOOSE v \in S : \A u \in S : v >= u

\* the two scans of _stretch_single_channel: first and last intensity with a
\* nonzero count, 0 and 255 when there is none
StretchMin(occ) == IF occ = {} THEN 0 ELSE SetMin(occ)
StretchMax(occ) == IF occ = {} THEN 255 ELSE SetMax(occ)

\* a stretch whose scale is 255.0 / (max_val - min_val + 1)
StretchValue_wide(old_val, min_val, max_val) ==
    Trunc((old_val - min_val) * 255, max_val - min_val + 1)

\* new_val = int((old_val - min_val) * scale), scale = 255.0 / (max_val - min_val)
StretchValue(old_val, min_val, max_val) == ScaleTo255(old_val - min_val, max_val - min_val)

_stretch_single_channel(img, data, channel) ==
    LET hist == compute_histogram(data, channel)
        occ == Occupied(hist)
        min_val == StretchMin(occ)
        max_val == StretchMax(occ)
    IN  IF min_val >= max_val
        THEN copy(img, data)
        ELSE NewBuffer(img.width, img.height, img.max_value,
                 [i \in 1..Len(data) |->
                     IF (i - 1) % 3 = channel
                     THEN clamp(img.max_value, StretchValue(data[i], min_val, max_val), 1)
                     ELSE data[i]])

\* channel None (stretch every channel in turn) is written AllChannels
histogram_stretch(img, data, channel) ==
    IF channel \in {0, 1, 2}
    THEN _stretch_single_channel(img, data, channel)
    ELSE LET r0 == copy(img, data)
             r1 == _stretch_single_channel(img, r0.data, 0)
             r2 == _stretch_single_channel(img, r1.data, 1)
         IN  _stretch_single_channel(img, r2.data, 2)

RECURSIVE SumOver(_, _)
\* the sum of f[v] over the intensities v of S
SumOver(f, S) ==
    IF S = {} THEN 0 ELSE LET v == SetMin(S) IN f[v] + SumOver(f, S \ {v})

\* cdf[i] = hist[0] + ... + hist[i]; occ is Occupied(hist), the intensities with
\* a zero count add nothing
Cdf(hist, occ, i) == SumOver(hist, { v \in occ : v <= i })

\* lut[i] = int((cdf[i] - cdf_min) * scale), scale = 255.0 / (total_pixels - cdf_min)
EqualizeLut(hist, occ, cdf_min, total_pixels, i) ==
    ScaleTo255(Cdf(hist, occ, i) - cdf_min, total_pixels - cdf_min)

_equalize_single_channel(img, data, channel) ==
    LET hist == compute_histogram(data, channel)
        occ == Occupied(hist)
        total_pixels == img.width * img.height
    IN  IF total_pixels = 0
        THEN copy(img, data)
        ELSE LET cdf_min == SetMin({ Cdf(hist, occ, i) : i \in occ })
             IN  IF cdf_min >= total_pixels
                 THEN copy(img, data)
                 ELSE NewBuffer(img.width, img.height, img.max_value,
                          [i \in 1..Len(data) |->
                              IF (i - 1) % 3 = channel
                              THEN clamp(img.max_value,
                                         EqualizeLut(hist, occ, cdf_min, total_pixels, data[i]), 1)
                              ELSE data[i]])

histogram_equalization(img, data, channel) ==
    IF channel \in {0, 1, 2}
    THEN _equalize_single_channel(img, data, channel)
    ELSE LET r0 == copy(img, data)
             r1 == _equalize_single_channel(img, r0.data, 0)
             r2 == _equalize_single_channel(img, r1.data, 1)
         IN  _equalize_single_channel(img, r2.data, 2)

----------------------------------------------------------------------------
(* filters.py *)

_clamp(value, lower, upper) == Max(lower, Min(upper, value))

\* a neighbour lookup that wraps around the image instead of replicating its edge
NeighbourBase_wrapping(width, height, x, y, dx, dy) ==
    LET nx == (x + dx) % width
        ny == (y + dy) % height
    IN  (ny * width + nx) * 3 + 1

\* 1-based index of the red sample of the edge-replicated neighbour (x+dx, y+dy)
NeighbourBase(width, height, x, y, dx, dy) ==
    LET nx == _clamp(x + dx, 0, width - 1)
        ny == _clamp(y + dy, 0, height - 1)
    IN  (ny * width + nx) * 3 + 1

\* pixel coordinates (x, y) of the sample at 1-based index i
XOf(width, i) == ((i - 1) \div 3) % width
YOf(width, i) == ((i - 1) \div 3) \div width

\* sum(sum(row) for row in kernel)
KernelSum(kernel) == SumSeq([ky \in 1..Len(kernel) |-> SumSeq(kernel[ky])])

\* acc[c] for the output pixel (x, y): the weighted sum over the kernel window
ConvAcc(width, height, data, kernel, x, y, c) ==
    LET size == Len(kernel)
        radius == size \div 2
    IN  SumSeq([k \in 1..(size * size) |->
            LET ky == (k - 1) \div size
                kx == (k - 1) % size
            IN  kernel[ky + 1][kx + 1]
                  * data[NeighbourBase(width, height, x, y, kx - radius, ky - radius) + c]])

\* _convolve; kernel weights and divisor are integers, divisor 0 also stands
\* for None ("divisor or sum(...)" treats both alike), offset = offset[1]/offset[2]
_convolve(img, data, kernel, divisor, offset) ==
    LET size == Len(kernel)
    IN  IF size % 2 = 0 \/ \E ky \in 1..size : Len(kernel[ky]) # size
        THEN Raise("ValueError")
        ELSE LET d0 == IF divisor # 0 THEN divisor ELSE KernelSum(kernel)
                 dv == IF d0 = 0 THEN 1 ELSE d0
                 sgn == IF dv > 0 THEN 1 ELSE -1
             IN  NewBuffer(img.width, img.height, img.max_value,
                     [i \in 1..Len(data) |->
                         LET acc == ConvAcc(img.width, img.height, data, kernel,
                                            XOf(img.width, i), YOf(img.width, i), (i - 1) % 3)
                         IN  clamp(img.max_value,
                                   sgn * (acc * offset[2] + offset[1] * dv),
                                   sgn * dv * offset[2])])

\* a mean_filter whose divisor is size instead of size * size
mean_filter_by_side(img, data, size) ==
    _convolve(img, data, [ky \in 1..size |-> [kx \in 1..size |-> 1]], size, <<0, 1>>)

mean_filter(img, data, size) ==
    _convolve(img, data, [ky \in 1..size |-> [kx \in 1..size |-> 1]], size * size, <<0, 1>>)

high_pass_sharpen(img, data) ==
    _convolve(img, data, << <<0, -1, 0>>, <<-1, 5, -1>>, <<0, -1, 0>> >>, 0, <<0, 1>>)

\* a custom_convolution that hands back a copy when _convolve rejects the kernel
custom_convolution_lenient(img, data, kernel, divisor, offset) ==
    LET r == _convolve(img, data, kernel, divisor, offset)
    IN  IF r.ok THEN r ELSE copy(img, data)

custom_convolution(img, data, kernel, divisor, offset) ==
    _convolve(img, data, kernel, divisor, offset)

\* _gaussian_kernel(radius, sigma), sigma = sigma[1]/sigma[2]: the weights
\* exp(-(i**2) / (2 * sigma**2)) / total for i in -radius..radius, in millionths,
\* for the values of sigma the calls below use
_gaussian_kernel(radius, sigma) ==
    CASE sigma = <<1, 2>> /\ radius = 1 -> <<106507, 786986, 106507>>
      [] sigma = <<1, 1>> /\ radius = 3 ->
            <<4433, 54006, 242036, 399050, 242036, 54006, 4433>>

\* _apply_separable: one pass of the 1-D kernel along axis "x" or "y" with
\* edge-replicated neighbours, each sum clamped
_apply_separable(img, data, kernel, axis) ==
    LET radius == Len(kernel) \div 2
    IN  NewBuffer(img.width, img.height, img.max_value,
            [i \in 1..Len(data) |->
                LET x == XOf(img.width, i)
                    y == YOf(img.width, i)
                    acc == SumSeq([k \in 1..Len(kernel) |->
                               LET offset == (k - 1) - radius
                                   base == IF axis = "x"
                                           THEN NeighbourBase(img.width, img.height, x, y, offset, 0)
                                           ELSE NeighbourBase(img.width, img.height, x, y, 0, offset)
                               IN  kernel[k] * data[base + ((i - 1) % 3)]])
                IN  clamp(img.max_value, acc, 1000000)])

\* gaussian_blur, sigma = sigma[1]/sigma[2] with sigma[2] > 0
gaussian_blur(img, data, sigma) ==
    IF sigma[1] <= 0
    THEN Raise("ValueError")
    ELSE LET radius == Max(1, Trunc(3 * sigma[1], sigma[2]))
             kernel == _gaussian_kernel(radius, sigma)
             temp == _apply_separable(img, data, kernel, "x")
         IN  _apply_separable(img, temp.data, kernel, "y")

\* the element at len(neighbors) // 2 of the list as gathered, not sorted
SortedMiddle_unsorted(q) == q[(Len(q) \div 2) + 1]

\* neighbors.sort(); neighbors[len(neighbors) // 2] for a list given as a sequence
SortedMiddle(q) ==
    LET idx == Len(q) \div 2
    IN  CHOOSE v \in { q[k] : k \in 1..Len(q) } :
            /\ Cardinality({ k \in 1..Len(q) : q[k] < v }) <= idx
            /\ Cardinality({ k \in 1..Len(q) : q[k] <= v }) > idx

median_filter(img, data, size) ==
    LET radius == size \div 2
        win == 2 * radius + 1
    IN  NewBuffer(img.width, img.height, img.max_value,
            [i \in 1..Len(data) |->
                SortedMiddle([k \in 1..(win * win) |->
                    data[NeighbourBase(img.width, img.height,
                                       XOf(img.width, i), YOf(img.width, i),
                                       ((k - 1) % win) - radius, ((k - 1) \div win) - radius)
                         + ((i - 1) % 3)]])])

Gx == << <<-1, 0, 1>>, <<-2, 0, 2>>, <<-1, 0, 1>> >>
Gy == << <<-1, -2, -1>>, <<0, 0, 0>>, <<1, 2, 1>> >>

\* clamp(math.sqrt(n)) for an integer n >= 0: round(sqrt(n)) >= k iff 4n >= (2k-1)^2
ClampSqrt(max_value, n) ==
    Cardinality({ k \in 1..max_value : (2 * k - 1) * (2 * k - 1) <= 4 * n })

sobel_edge(img, data) ==
    NewBuffer(img.width, img.height, img.max_value,
        [i \in 1..Len(data) |->
            LET ax == ConvAcc(img.width, img.height, data, Gx,
                              XOf(img.width, i), YOf(img.width, i), (i - 1) % 3)
                ay == ConvAcc(img.width, img.height, data, Gy,
                              XOf(img.width, i), YOf(img.width, i), (i - 1) % 3)
            IN  ClampSqrt(img.max_value, ax * ax + ay * ay)])

----------------------------------------------------------------------------
(* binarization.py *)

\* a threshold_manual whose comparison is gray > threshold
threshold_manual_strict(img, data, threshold) ==
    IF ~(0 <= threshold /\ threshold <= 255)
    THEN Raise("ValueError")
    ELSE NewBuffer(img.width, img.height, img.max_value,
             [i \in 1..Len(data) |->
                 LET base == i - ((i - 1) % 3)
                     gray == Luminance(data[base], data[base + 1], data[base + 2])
                 IN  IF gray > threshold THEN 255 ELSE 0])

threshold_manual(img, data, threshold) ==
    IF ~(0 <= threshold /\ threshold <= 255)
    THEN Raise("ValueError")
    ELSE NewBuffer(img.width, img.height, img.max_value,
             [i \in 1..Len(data) |->
                 LET base == i - ((i - 1) % 3)
                     gray == Luminance(data[base], data[base + 1], data[base + 2])
                 IN  IF gray >= threshold THEN 255 ELSE 0])

\* the scan "for i in range(256): cumulative += hist[i]; if cumulative >= target_black:
\* threshold = i; break", threshold 0 when the scan never breaks
\* cumulative only grows at an occupied intensity, so the scan breaks at 0 or
\* at an occupied intensity
PercentScan(hist, target_black) ==
    LET occ == Occupied(hist)
        reached == { i \in occ \cup {0} : Cdf(hist, occ, i) >= target_black }
    IN  IF reached = {} THEN 0 ELSE SetMin(reached)

\* the threshold threshold_percent_black hands to threshold_manual; percent an integer
PercentBlackThreshold(img, data, percent) ==
    LET hist == compute_histogram_grayscale(data)
        total_pixels == img.width * img.height
        target_black == Trunc(total_pixels * percent, 100)
    IN  PercentScan(hist, target_black)

threshold_percent_black(img, data, percent) ==
    IF ~(0 <= percent /\ percent <= 100)
    THEN Raise("ValueError")
    ELSE threshold_manual(img, data, PercentBlackThreshold(img, data, percent))

\* sum(i * hist[i] for i in range(lo, hi)) and sum(hist[i] for i in range(lo, hi)):
\* only occupied intensities contribute
WeightedSum(hist, occ, lo, hi) ==
    SumOver([v \in 0..255 |-> v * hist[v]], { v \in occ : lo <= v /\ v < hi })

CountSum(hist, occ, lo, hi) == SumOver(hist, { v \in occ : lo <= v /\ v < hi })

RECURSIVE MeanIterate(_, _, _, _)
\* the loop of threshold_mean_iterative with `left` iterations to go; the
\* quotient (mean_below + mean_above) / 2 is exact in doubles while each side
\* holds at most two pixels
MeanIterate(hist, occ, threshold, left) ==
    IF left <= 0 THEN threshold
    ELSE LET sum_below == WeightedSum(hist, occ, 0, threshold)
             count_below == CountSum(hist, occ, 0, threshold)
             sum_above == WeightedSum(hist, occ, threshold, 256)
             count_above == CountSum(hist, occ, threshold, 256)
         IN  IF count_below = 0 \/ count_above = 0 THEN threshold
             ELSE LET new_threshold ==
                          Trunc(sum_below * count_above + sum_above * count_below,
                                2 * count_below * count_above)
                  IN  IF new_threshold = threshold THEN threshold
                      ELSE MeanIterate(hist, occ, new_threshold, left - 1)

\* the threshold threshold_mean_iterative hands to threshold_manual
MeanIterativeThreshold(img, data, max_iterations) ==
    LET hist == compute_histogram_grayscale(data)
        occ == Occupied(hist)
        total_sum == WeightedSum(hist, occ, 0, 256)
        total_pixels == img.width * img.height
    IN  IF total_pixels = 0 THEN 128
        ELSE MeanIterate(hist, occ, Trunc(total_sum, total_pixels), max_iterations)

threshold_mean_iterative(img, data, max_iterations) ==
    threshold_manual(img, data, MeanIterativeThreshold(img, data, max_iterations))

----------------------------------------------------------------------------
(* binarization.py: the threshold searches *)

\* -log2(h / c) in millionths, as <<h, c, value>>, for the counts 1 <= h <= c <= 8
Log2Table == {
    <<1, 1, 0>>, <<1, 2, 1000000>>, <<2, 2, 0>>, <<1, 3, 1584963>>, <<2, 3, 584963>>, <<3, 3, 0>>,
    <<1, 4, 2000000>>, <<2, 4, 1000000>>, <<3, 4, 415037>>, <<4, 4, 0>>, <<1, 5, 2321928>>, <<2, 5, 1321928>>,
    <<3, 5, 736966>>, <<4, 5, 321928>>, <<5, 5, 0>>, <<1, 6, 2584963>>, <<2, 6, 1584963>>, <<3, 6, 1000000>>,
    <<4, 6, 584963>>, <<5, 6, 263034>>, <<6, 6, 0>>, <<1, 7, 2807355>>, <<2, 7, 1807355>>, <<3, 7, 1222392>>,
    <<4, 7, 807355>>, <<5, 7, 485427>>, <<6, 7, 222392>>, <<7, 7, 0>>, <<1, 8, 3000000>>, <<2, 8, 2000000>>,
    <<3, 8, 1415037>>, <<4, 8, 1000000>>, <<5, 8, 678072>>, <<6, 8, 415037>>, <<7, 8, 192645>>, <<8, 8, 0>> }

\* -math.log2(h / c), in millionths
NegLog2(h, c) == (CHOOSE e \in Log2Table : e[1] = h /\ e[2] = c)[3]

\* math.log(n / d) in millionths, as <<n, d, value>> with n/d in lowest terms,
\* for the variances and class probabilities of the images of the search runs
LnTable == {
    <<3, 16, -1673976>>, <<2, 9, -1504077>>, <<1, 4, -1386294>>, <<2, 7, -1252763>>, <<1, 3, -1098612>>, <<2, 5, -916291>>,
    <<3, 7, -847298>>, <<1, 2, -693147>>, <<4, 7, -559616>>, <<3, 5, -510826>>, <<16, 25, -446287>>, <<2, 3, -405465>>,
    <<11, 16, -374693>>, <<5, 7, -336472>>, <<3, 4, -287682>>, <<8, 9, -117783>>, <<1, 1, 0>> }

RECURSIVE GCD(_, _)
GCD(a, b) == IF b = 0 THEN a ELSE GCD(b, a % b)

\* the rational q[1]/q[2], q[1] >= 0 and q[2] > 0, in lowest terms
Reduce(q) == LET g == GCD(q[1], q[2]) IN <<q[1] \div g, q[2] \div g>>

\* math.log(q[1] / q[2]), in millionths
Ln(q) == LET r == Reduce(q) IN (CHOOSE e \in LnTable : e[1] = r[1] /\ e[2] = r[2])[3]

\* a + b and a < b for rationals
AddQ(a, b) == Reduce(<<a[1] * b[2] + b[1] * a[2], a[2] * b[2]>>)
LessQ(a, b) == a[1] * b[2] < b[1] * a[2]

\* A candidate threshold t of a search is skipped (the "continue" of the
\* source) or has a score; a score is a rational <<n, d>>, d > 0.
Skip == [ok |-> FALSE, score |-> <<>>]
Scored(q) == [ok |-> TRUE, score |-> q]

\* the body of threshold_entropy's loop for one t: total_entropy in millionths
\* (prob[i] / p_bg is hist[i] / count of the side)
total_entropy(hist, t) ==
    LET occ == Occupied(hist)
        bg == { i \in occ : i < t }
        fg == { i \in occ : i >= t }
        count_bg == SumOver(hist, bg)
        count_fg == SumOver(hist, fg)
    IN  IF count_bg = 0 \/ count_fg = 0 THEN Skip
        ELSE LET entropy_bg ==
                     SumOver([i \in 0..255 |-> IF i \in bg THEN hist[i] * NegLog2(hist[i], count_bg)
                                               ELSE 0], bg) \div count_bg
                 entropy_fg ==
                     SumOver([i \in 0..255 |-> IF i \in fg THEN hist[i] * NegLog2(hist[i], count_fg)
                                               ELSE 0], fg) \div count_fg
             IN  Scored(<<entropy_bg + entropy_fg, 1>>)

\* sum((i - mean) ** 2 * hist[i] for i in side) / count, mean = sum(i * hist[i]) / count
Variance(hist, side) ==
    LET count == SumOver(hist, side)
        total == SumOver([i \in 0..255 |-> i * hist[i]], side)
    IN  Reduce(<<SumOver([i \in 0..255 |-> (i * count - total) * (i * count - total) * hist[i]],
                         side),
                 count * count * count>>)

\* the body of threshold_minimum_error's loop for one t: error * total_pixels
\* in millionths
minimum_error(hist, total_pixels, t) ==
    LET occ == Occupied(hist)
        bg == { i \in occ : i < t }
        fg == { i \in occ : i >= t }
        count_bg == SumOver(hist, bg)
        count_fg == SumOver(hist, fg)
    IN  IF count_bg = 0 THEN Skip
        ELSE IF count_fg = 0 THEN Skip
        ELSE LET variance_bg == Variance(hist, bg)
                 variance_fg == Variance(hist, fg)
             IN  IF variance_bg[1] <= 0 \/ variance_fg[1] <= 0 THEN Skip
                 ELSE Scored(<<count_bg * Ln(variance_bg) + count_fg * Ln(variance_fg)
                                 - 2 * (count_bg * Ln(<<count_bg, total_pixels>>)
                                        + count_fg * Ln(<<count_fg, total_pixels>>)),
                               1>>)

\* sum(mu * (i - mean) ** 2 * hist[i]) over one side for the memberships
\* mu[i] = w[i] / scale, mean = sum(mu * i * hist[i]) / sum(mu * hist[i])
FuzzySide(hist, side, w, scale) ==
    LET s == SumOver([i \in 0..255 |-> IF i \in side THEN w[i] * hist[i] ELSE 0], side)
        ws == SumOver([i \in 0..255 |-> IF i \in side THEN w[i] * i * hist[i] ELSE 0], side)
    IN  Reduce(<<SumOver([i \in 0..255 |->
                             IF i \in side
                             THEN w[i] * hist[i] * (i * s - ws) * (i * s - ws) ELSE 0], side),
                 scale * s * s>>)

\* the body of threshold_fuzzy_minimum_error's loop for one t: error, exactly;
\* mu_bg = 1 - i/t = (t - i)/t below t, mu_fg = (i - t)/(255 - t) from t on
fuzzy_error(hist, total_pixels, t) ==
    LET occ == Occupied(hist)
        bg == { i \in occ : i < t }
        fg == { i \in occ : i >= t }
        w == [i \in 0..255 |-> IF i < t THEN t - i ELSE i - t]
        sum_bg == SumOver([i \in 0..255 |-> IF i \in bg THEN w[i] * hist[i] ELSE 0], bg)
        sum_fg == SumOver([i \in 0..255 |-> IF i \in fg THEN w[i] * hist[i] ELSE 0], fg)
    IN  IF sum_bg = 0 \/ sum_fg = 0 THEN Skip
        ELSE LET error == AddQ(FuzzySide(hist, bg, w, t), FuzzySide(hist, fg, w, 255 - t))
             IN  Scored(Reduce(<<error[1], error[2] * total_pixels>>))

\* the candidate t of the search named method
Candidate(method, hist, total_pixels, t) ==
    CASE method = "threshold_entropy" -> total_entropy(hist, t)
      [] method = "threshold_minimum_error" -> minimum_error(hist, total_pixels, t)
      [] method = "threshold_fuzzy_minimum_error" -> fuzzy_error(hist, total_pixels, t)

\* an Improves that also takes a candidate as good as the best so far
Improves_or_equals(method, score, best) ==
    IF best = <<>> THEN TRUE
    ELSE IF method = "threshold_entropy" THEN ~LessQ(score, best)
    ELSE ~LessQ(best, score)

\* "total_entropy > max_entropy" and "error < min_error"; best = <<>> stands for
\* the initial -inf and inf
Improves(method, score, best) ==
    IF best = <<>> THEN TRUE
    ELSE IF method = "threshold_entropy" THEN LessQ(best, score)
    ELSE LessQ(score, best)

----------------------------------------------------------------------------
(* ppm.py *)

(* A file is a sequence of bytes 0..255.  A stream position is the number  *)
(* of bytes consumed.  The bytes the codec looks at: 'P' 80, '3' 51,       *)
(* '6' 54, '#' 35, LF 10, CR 13, space 32, '0'..'9' 48..57, '+' 43,        *)
(* '-' 45, '_' 95.                                                         *)

\* b" \t\r\n\v\f", the separators of _read_tokens
HeaderSpace == {32, 9, 13, 10, 11, 12}

\* chr(ch).isspace(), the separators of _ascii_value_generator
isspace(ch) == ch \in (9..13) \cup (28..32) \cup {133, 160}

\* bytes.decode("ascii") succeeds
IsAscii(bytes) == \A i \in 1..Len(bytes) : bytes[i] < 128

\* the characters of a token int() reads as digits, underscores between digits dropped
IntDigits(text) == SelectSeq(text, LAMBDA ch : ch # 95)

IntGrammar(text) ==
    /\ text # <<>>
    /\ \A i \in 1..Len(text) : text[i] \in (48..57) \cup {95}
    /\ text[1] # 95 /\ text[Len(text)] # 95
    /\ \A i \in 1..(Len(text) - 1) : ~(text[i] = 95 /\ text[i + 1] = 95)

RECURSIVE DigitsValue(_)
DigitsValue(digits) ==
    IF digits = <<>> THEN 0
    ELSE DigitsValue(SubSeq(digits, 1, Len(digits) - 1)) * 10 + (digits[Len(digits)] - 48)

\* int(token) of a str without whitespace: an optional sign and decimal digits,
\* ValueError for anything else
int(token) ==
    LET signed == token # <<>> /\ token[1] \in {43, 45}
        text == IF signed THEN Tail(token) ELSE token
    IN  IF IntGrammar(text)
        THEN [ok |-> TRUE,
              value |-> IF signed /\ token[1] = 45 THEN -DigitsValue(IntDigits(text))
                        ELSE DigitsValue(IntDigits(text))]
        ELSE [ok |-> FALSE, value |-> 0]

\* str(n) for a non-negative int
RECURSIVE DigitsOf(_)
DigitsOf(n) == IF n < 10 THEN <<48 + n>> ELSE DigitsOf(n \div 10) \o <<48 + (n % 10)>>

\* str(n), as the f-strings of write_ppm format an int
str(n) == IF n < 0 THEN <<45>> \o DigitsOf(-n) ELSE DigitsOf(n)

\* the loop of _read_tokens from position pos with the locals token, comment
\* and the tokens yielded so far: one byte is read per iteration, the loop
\* stops when required tokens have been yielded or the stream ends
RECURSIVE ReadTokensLoop(_, _, _, _, _, _)
ReadTokensLoop(file, pos, required, token, comment, tokens) ==
    IF required = 0
    THEN [tokens |-> tokens, pos |-> pos]
    ELSE IF pos >= Len(file)
    THEN [tokens |-> IF token # <<>> THEN Append(tokens, token) ELSE tokens, pos |-> pos]
    ELSE LET ch == file[pos + 1]
         IN  IF comment
             THEN ReadTokensLoop(file, pos + 1, required, token, ch \notin {10, 13}, tokens)
             ELSE IF ch = 35
             THEN ReadTokensLoop(file, pos + 1, required, token, TRUE, tokens)
             ELSE IF ch \in HeaderSpace
             THEN IF token # <<>>
                  THEN ReadTokensLoop(file, pos + 1, required - 1, <<>>, FALSE,
                                      Append(tokens, token))
                  ELSE ReadTokensLoop(file, pos + 1, required, token, FALSE, tokens)
             ELSE ReadTokensLoop(file, pos + 1, required, Append(token, ch), FALSE, tokens)

\* a tokenizer that also consumes the whitespace following the last token
RECURSIVE SkipSpace(_, _)
SkipSpace(file, pos) ==
    IF pos < Len(file) /\ file[pos + 1] \in HeaderSpace THEN SkipSpace(file, pos + 1) ELSE pos

_read_tokens_skipping(file, pos, required) ==
    LET t == ReadTokensLoop(file, pos, required, <<>>, FALSE, <<>>)
    IN  [tokens |-> t.tokens, pos |-> SkipSpace(file, t.pos)]

\* _read_tokens(stream, required): the tokens (undecoded) and the position
\* the stream is left at
_read_tokens(file, pos, required) == ReadTokensLoop(file, pos, required, <<>>, FALSE, <<>>)

HeaderRaise(err, pos) ==
    [ok |-> FALSE, err |-> err, magic |-> "", width |-> 0, height |-> 0, max_value |-> 0,
     pos |-> pos]

MagicName(bytes) ==
    IF bytes = <<80, 51>> THEN "P3" ELSE IF bytes = <<80, 54>> THEN "P6" ELSE "other"

\* _read_header(stream) with the stream at position pos
_read_header(file, pos) ==
    LET magic == SubSeq(file, pos + 1, Min(pos + 2, Len(file)))
        t == _read_tokens(file, pos + Len(magic), 3)
        ints == [i \in 1..Len(t.tokens) |-> int(t.tokens[i])]
    IN  IF ~IsAscii(magic) THEN HeaderRaise("UnicodeDecodeError", pos + Len(magic))
        ELSE IF MagicName(magic) = "other"
        THEN HeaderRaise("PPMFormatError", pos + Len(magic))
        ELSE IF \E i \in 1..Len(t.tokens) : ~IsAscii(t.tokens[i])
        THEN HeaderRaise("UnicodeDecodeError", t.pos)
        ELSE IF Len(t.tokens) < 3 THEN HeaderRaise("PPMFormatError", t.pos)
        ELSE IF \E i \in 1..3 : ~ints[i].ok THEN HeaderRaise("ValueError", t.pos)
        ELSE [ok |-> TRUE, err |-> "", magic |-> MagicName(magic),
              width |-> ints[1].value, height |-> ints[2].value,
              max_value |-> ints[3].value, pos |-> t.pos]

\* the loop of _ascii_value_generator over the bytes after position pos (a
\* file shorter than 4096 bytes is one chunk): the tokens in the order yielded
RECURSIVE AsciiTokensLoop(_, _, _, _, _)
AsciiTokensLoop(file, pos, token, comment, tokens) ==
    IF pos >= Len(file)
    THEN IF token # <<>> THEN Append(tokens, token) ELSE tokens
    ELSE LET ch == file[pos + 1]
         IN  IF comment
             THEN AsciiTokensLoop(file, pos + 1, token, ch \notin {10, 13}, tokens)
             ELSE IF ch = 35
             THEN AsciiTokensLoop(file, pos + 1, token, TRUE, tokens)
             ELSE IF isspace(ch)
             THEN IF token # <<>>
                  THEN AsciiTokensLoop(file, pos + 1, <<>>, FALSE, Append(tokens, token))
                  ELSE AsciiTokensLoop(file, pos + 1, token, FALSE, tokens)
             ELSE AsciiTokensLoop(file, pos + 1, Append(token, ch), FALSE, tokens)

_ascii_value_generator(file, pos) == AsciiTokensLoop(file, pos, <<>>, FALSE, <<>>)

PixelsRaise(err) == [ok |-> FALSE, err |-> err, data |-> <<>>]

\* _normalize_value(value, max_value); (value / max_value) * 255 rounds as the
\* exact quotient does for every 0 <= value <= max_value <= 2000
_normalize_value(value, max_value) ==
    IF max_value = 255 THEN [ok |-> TRUE, err |-> "", value |-> value]
    ELSE IF max_value = 0 THEN [ok |-> FALSE, err |-> "ZeroDivisionError", value |-> 0]
    ELSE IF max_value > 0
    THEN [ok |-> TRUE, err |-> "", value |-> RoundHalfEven(value * 255, max_value)]
    ELSE [ok |-> TRUE, err |-> "", value |-> RoundHalfEven(-value * 255, -max_value)]

\* the for loop of _read_ascii_pixels: token i is pulled from the generator
\* (and decoded) before idx is compared with total_values; data holds the idx
\* values stored so far
RECURSIVE AsciiPixelsLoop(_, _, _, _, _)
AsciiPixelsLoop(tokens, i, total_values, max_value, data) ==
    IF i > Len(tokens)
    THEN IF Len(data) # total_values THEN PixelsRaise("PPMFormatError")
         ELSE [ok |-> TRUE, err |-> "", data |-> data]
    ELSE IF ~IsAscii(tokens[i]) THEN PixelsRaise("UnicodeDecodeError")
    ELSE IF Len(data) >= total_values THEN [ok |-> TRUE, err |-> "", data |-> data]
    ELSE LET value == int(tokens[i])
             stored == _normalize_value(value.value, max_value)
         IN  IF ~value.ok THEN PixelsRaise("ValueError")
             ELSE IF ~stored.ok THEN PixelsRaise(stored.err)
             ELSE IF stored.value \notin 0..255 THEN PixelsRaise("ValueError")
             ELSE AsciiPixelsLoop(tokens, i + 1, total_values, max_value,
                                  Append(data, stored.value))

\* _read_ascii_pixels(stream, total_values, max_value); bytearray(n) raises
\* ValueError for n < 0
_read_ascii_pixels(file, pos, total_values, max_value) ==
    IF total_values < 0 THEN PixelsRaise("ValueError")
    ELSE AsciiPixelsLoop(_ascii_value_generator(file, pos), 1, total_values, max_value, <<>>)

\* (b, max_value) with max_value <= 1024 where b * (255 / max_value) in doubles
\* rounds to one less than the exact b*255/max_value does
BinaryLow ==
    {
      <<25, 50>>, <<45, 50>>, <<85, 50>>, <<165, 50>>, <<185, 50>>, <<29, 58>>,
      <<145, 58>>, <<50, 100>>, <<90, 100>>, <<170, 100>>, <<53, 106>>, <<58, 116>>,
      <<91, 182>>, <<93, 186>>, <<100, 200>>, <<180, 200>>, <<103, 206>>, <<21, 210>>,
      <<49, 210>>, <<77, 210>>, <<105, 210>>, <<161, 210>>, <<189, 210>>, <<106, 212>>,
      <<116, 232>>, <<117, 234>>, <<121, 242>>, <<182, 364>>, <<185, 370>>,
      <<186, 372>>, <<11, 374>>, <<143, 374>>, <<187, 374>>, <<191, 382>>,
      <<200, 400>>, <<203, 406>>, <<206, 412>>, <<207, 414>>, <<42, 420>>, <<98, 420>>,
      <<154, 420>>, <<210, 420>>, <<212, 424>>, <<217, 434>>, <<13, 442>>,
      <<169, 442>>, <<221, 442>>, <<232, 464>>, <<233, 466>>, <<234, 468>>,
      <<47, 470>>, <<235, 470>>, <<242, 484>>, <<161, 690>>, <<22, 748>>, <<84, 840>>,
      <<196, 840>>, <<87, 870>>, <<203, 870>>, <<26, 884>>, <<89, 890>>, <<93, 930>>,
      <<217, 930>>, <<94, 940>> }

\* ... and where it rounds to one more
BinaryHigh ==
    {
      <<77, 22>>, <<165, 22>>, <<91, 26>>, <<195, 26>>, <<154, 44>>, <<182, 52>>,
      <<93, 62>>, <<217, 62>>, <<209, 110>>, <<183, 122>>, <<186, 124>>, <<135, 162>>,
      <<67, 402>>, <<134, 804>> }

\* int(round(b * scale)) with scale = 255 / max_value, max_value > 0
BinaryScale(b, max_value) ==
    RoundHalfEven(b * 255, max_value)
        + (IF <<b, max_value>> \in BinaryLow THEN -1
           ELSE IF <<b, max_value>> \in BinaryHigh THEN 1 ELSE 0)

\* _read_binary_pixels(stream, total_values, max_value); read(n) of a buffered
\* binary file raises ValueError for n < -1
_read_binary_pixels(file, pos, total_values, max_value) ==
    LET raw == SubSeq(file, pos + 1, Min(pos + total_values, Len(file)))
        scaled == [i \in 1..Len(raw) |->
                     IF max_value > 0 THEN BinaryScale(raw[i], max_value)
                     ELSE -BinaryScale(raw[i], -max_value)]
    IN  IF total_values < 0 THEN PixelsRaise("ValueError")
        ELSE IF Len(raw) # total_values THEN PixelsRaise("PPMFormatError")
        ELSE IF max_value = 255 THEN [ok |-> TRUE, err |-> "", data |-> raw]
        ELSE IF max_value = 0 THEN PixelsRaise("ZeroDivisionError")
        ELSE IF \E i \in 1..Len(raw) : scaled[i] \notin 0..255 THEN PixelsRaise("ValueError")
        ELSE [ok |-> TRUE, err |-> "", data |-> scaled]

\* the header write_ppm encodes
HeaderBytes(img, binary) ==
    <<80, IF binary THEN 54 ELSE 51, 10>> \o str(img.width) \o <<32>> \o str(img.height)
        \o <<10>> \o str(img.max_value) \o <<10>>

RECURSIVE RowText_broken_lines(_, _, _, _)
\* a row written one pixel per line
RowText_broken_lines(img, data, y, x) ==
    IF x >= img.width THEN <<>>
    ELSE LET at == (y * img.width + x) * 3
         IN  str(data[at + 1]) \o <<32>> \o str(data[at + 2]) \o <<32>>
                 \o str(data[at + 3]) \o <<10>> \o RowText_broken_lines(img, data, y, x + 1)

\* the text line of row y: "r g b" triples joined by single spaces, then "\n"
RECURSIVE RowText(_, _, _, _)
RowText(img, data, y, x) ==
    IF x >= img.width THEN <<10>>
    ELSE LET at == (y * img.width + x) * 3
         IN  (IF x > 0 THEN <<32>> ELSE <<>>)
                 \o str(data[at + 1]) \o <<32>> \o str(data[at + 2]) \o <<32>>
                 \o str(data[at + 3]) \o RowText(img, data, y, x + 1)

\* _write_ascii_pixels(image, stream): the bytes written, rows y..height-1
RECURSIVE _write_ascii_pixels(_, _, _)
_write_ascii_pixels(img, data, y) ==
    IF y >= img.height THEN <<>>
    ELSE RowText(img, data, y, 0) \o _write_ascii_pixels(img, data, y + 1)

\* a file object: open or closed, its position
ClosedStream == [open |-> FALSE, pos |-> 0]

\* open(path, mode)
OpenStream == [open |-> TRUE, pos |-> 0]

\* a block whose close() is skipped when an exception leaves it
ExitOnSuccessOnly(stream, exc) == IF exc = "" THEN [stream EXCEPT !.open = FALSE] ELSE stream

\* leaving the with block, normally (exc = "") or by an exception: the file is closed
WithExit(stream, exc) == [stream EXCEPT !.open = FALSE]

----------------------------------------------------------------------------
(* Object store: every ImageBuffer(...) construction allocates a new        *)
(* bytearray; a slot that is overwritten drops its reference.               *)

LiveRefs == { bufs[s].ref : s \in Slots } \ {0}

FreshRef == CHOOSE r \in Refs : r \notin LiveRefs /\ \A q \in Refs : q \notin LiveRefs => r <= q

\* the result r of a construction is bound to slot dst
Store(dst, r) ==
    LET ref == IF r.ref = 0 THEN FreshRef ELSE r.ref
        nb == [width |-> r.width, height |-> r.height, max_value |-> r.max_value, ref |-> ref]
        keep == { bufs[s].ref : s \in Slots \ {dst} }
    IN  /\ bufs' = [bufs EXCEPT ![dst] = nb]
        /\ heap' = [q \in Refs |-> IF q = ref THEN r.data
                                   ELSE IF q \in keep THEN heap[q] ELSE <<>>]

\* the record of a call: status is "ok" or the exception raised, ret what a
\* call that builds no buffer returned
Call(op, src, dst, args, status, ret) ==
    [op |-> op, src |-> src, dst |-> dst, args |-> args, status |-> status, ret |-> ret]

Status(r) == IF r.ok THEN "ok" ELSE r.err

\* colours that fit a channel depth
ColorsFor(mv) == { c \in Palette : c[1] <= mv /\ c[2] <= mv /\ c[3] <= mv }

\* pixel sequences of at most MaxPixels pixels
PixelSeqs(mv) == UNION { [1..n -> ColorsFor(mv)] : n \in 0..MaxPixels }

\* coordinates tried, inside and outside every image
Coords == -1..MaxPixels

\* colours handed to set_pixel, each channel a rational n/d: out of range on
\* both sides, halves that round to even, and plain in-range values
SetColors == { << <<-5, 1>>, <<601, 2>>, <<255, 2>> >>,
               << <<5, 2>>, <<1, 1>>, <<100, 1>> >> }

Exists(s) == bufs[s] # NoBuf

----------------------------------------------------------------------------
(* Calls on the buffer *)

FromDimensions(dst, w, h, color, mv) ==
    LET r == from_dimensions(w, h, color, mv)
    IN  /\ IF r.ok THEN Store(dst, r) ELSE UNCHANGED <<bufs, heap>>
        /\ last' = Call("from_dimensions", "", dst, <<w, h, color, mv>>, Status(r), <<>>)

FromPixels(dst, w, h, pixels, mv) ==
    LET r == from_pixels(w, h, pixels, mv)
    IN  /\ IF r.ok THEN Store(dst, r) ELSE UNCHANGED <<bufs, heap>>
        /\ last' = Call("from_pixels", "", dst, <<w, h, pixels, mv>>, Status(r), <<>>)

GetPixel(src, x, y) ==
    /\ Exists(src)
    /\ LET r == get_pixel(bufs[src], DataOf(bufs[src]), x, y)
       IN  last' = Call("get_pixel", src, "", <<x, y>>, Status(r), r.pixel)
    /\ UNCHANGED <<bufs, heap>>

SetPixel(src, x, y, color) ==
    /\ Exists(src)
    /\ LET r == set_pixel(bufs[src], DataOf(bufs[src]), x, y, color)
       IN  /\ heap' = [heap EXCEPT ![bufs[src].ref] = r.data]
           /\ last' = Call("set_pixel", src, "", <<x, y, color>>, Status(r), <<>>)
    /\ UNCHANGED bufs

\* a transform called on the buffer of slot src, its result r bound to slot dst
Transform(op, src, dst, args, r) ==
    /\ IF r.ok THEN Store(dst, r) ELSE UNCHANGED <<bufs, heap>>
    /\ last' = Call(op, src, dst, args, Status(r), <<>>)

Img(src) == bufs[src]
Dat(src) == heap[bufs[src].ref]

Copy(src, dst) == Transform("copy", src, dst, <<>>, copy(Img(src), Dat(src)))

AddConstant(src, dst, v) ==
    Transform("add_constant", src, dst, <<v>>, add_constant(Img(src), Dat(src), v))

SubtractConstant(src, dst, v) ==
    Transform("subtract_constant", src, dst, <<v>>, subtract_constant(Img(src), Dat(src), v))

Multiply(src, dst, f) ==
    Transform("multiply", src, dst, <<f>>, multiply(Img(src), Dat(src), f))

Divide(src, dst, dv) ==
    Transform("divide", src, dst, <<dv>>, divide(Img(src), Dat(src), dv))

LinearColorScale(src, dst, sr, sg, sb) ==
    Transform("linear_color_scale", src, dst, <<sr, sg, sb>>,
              linear_color_scale(Img(src), Dat(src), sr, sg, sb))

GrayscaleAverage(src, dst) ==
    Transform("grayscale_average", src, dst, <<>>, grayscale_average(Img(src), Dat(src)))

GrayscaleLuminance(src, dst) ==
    Transform("grayscale_luminance", src, dst, <<>>, grayscale_luminance(Img(src), Dat(src)))

HistogramStretch(src, dst, channel) ==
    Transform("histogram_stretch", src, dst, <<channel>>,
              histogram_stretch(Img(src), Dat(src), channel))

HistogramEqualization(src, dst, channel) ==
    Transform("histogram_equalization", src, dst, <<channel>>,
              histogram_equalization(Img(src), Dat(src), channel))

MeanFilter(src, dst, size) ==
    Transform("mean_filter", src, dst, <<size>>, mean_filter(Img(src), Dat(src), size))

MedianFilter(src, dst, size) ==
    Transform("median_filter", src, dst, <<size>>, median_filter(Img(src), Dat(src), size))

SobelEdge(src, dst) ==
    Transform("sobel_edge", src, dst, <<>>, sobel_edge(Img(src), Dat(src)))

HighPassSharpen(src, dst) ==
    Transform("high_pass_sharpen", src, dst, <<>>, high_pass_sharpen(Img(src), Dat(src)))

CustomConvolution(src, dst, kernel, divisor, offset) ==
    Transform("custom_convolution", src, dst, <<kernel, divisor, offset>>,
              custom_convolution(Img(src), Dat(src), kernel, divisor, offset))

GaussianBlur(src, dst, sigma) ==
    Transform("gaussian_blur", src, dst, <<sigma>>, gaussian_blur(Img(src), Dat(src), sigma))

ThresholdManual(src, dst, threshold) ==
    Transform("threshold_manual", src, dst, <<threshold>>,
              threshold_manual(Img(src), Dat(src), threshold))

ThresholdPercentBlack(src, dst, percent) ==
    Transform("threshold_percent_black", src, dst, <<percent>>,
              threshold_percent_black(Img(src), Dat(src), percent))

ThresholdMeanIterative(src, dst, max_iterations) ==
    Transform("threshold_mean_iterative", src, dst, <<max_iterations>>,
              threshold_mean_iterative(Img(src), Dat(src), max_iterations))

----------------------------------------------------------------------------
(* Arguments the model calls the transforms with *)

AllChannels == -1
Channels == {0, 1, 2, AllChannels}
Kernels == { << <<0, 0, 0>>, <<0, 2, 0>>, <<0, 0, 0>> >>,      \* weight sum 2
             << <<-1, 0, 1>>, <<-1, 0, 1>>, <<-1, 0, 1>> >>,   \* weight sum 0
             << <<3>> >>,                                     \* 1x1
             << <<1, 1>>, <<1, 1>> >>,                         \* even side
             [ky \in 1..4 |-> [kx \in 1..4 |-> 1]],            \* 4x4
             << <<1, 1, 1>>, <<1, 1>>, <<1, 1, 1>> >>,         \* rows of unequal length
             << >> }                                          \* empty
ConvArgs == { <<0, <<0, 1>>>>, <<4, <<257, 2>>>> }
\* sigma as a rational: -1, 0, 0.5, 1
Sigmas == { <<-1, 1>>, <<0, 1>>, <<1, 2>>, <<1, 1>> }
Thresholds == {-1, 0, 128, 255, 256}
Percents == {-1, 0, 50, 75, 100, 101}

----------------------------------------------------------------------------
(* Calls on the codec, one step per statement of read_ppm and write_ppm *)

\* no threshold search in progress
NoSearch == [pc |-> "idle", method |-> "", src |-> "", dst |-> "", hist |-> <<>>, t |-> 0,
             best_threshold |-> 0, best |-> <<>>]

\* no threshold_mean_iterative call in progress
NoIter == [pc |-> "idle", src |-> "", dst |-> "", max_iterations |-> 0, hist |-> <<>>,
           threshold |-> 0, iterations |-> 0]

\* no binomial_coefficient call in progress
NoFrame == [pc |-> "idle", n |-> 0, k |-> 0, i |-> 0, result |-> 0, args |-> <<>>]

Idle ==
    [pc |-> "idle", slot |-> "", binary |-> FALSE, magic |-> "", width |-> 0, height |-> 0,
     max_value |-> 0, data |-> <<>>, exc |-> ""]

\* read_ppm(path): open(path, "rb") enters the with block
ReadOpen(dst) ==
    /\ io.pc = "idle"
    /\ handle' = OpenStream
    /\ io' = [Idle EXCEPT !.pc = "read_header", !.slot = dst]
    /\ UNCHANGED <<bufs, heap, last, disk, polygon, frame, iter, search>>

\* magic, width, height, max_value = _read_header(stream)
ReadHeader ==
    /\ io.pc = "read_header"
    /\ LET h == _read_header(disk, handle.pos)
       IN  /\ handle' = [handle EXCEPT !.pos = h.pos]
           /\ io' = IF h.ok
                    THEN [io EXCEPT !.pc = "read_body", !.magic = h.magic, !.width = h.width,
                                    !.height = h.height, !.max_value = h.max_value]
                    ELSE [io EXCEPT !.pc = "read_exit", !.exc = h.err]
    /\ UNCHANGED <<bufs, heap, last, disk, polygon, frame, iter, search>>

\* total_values = width * height * 3 and the pixel reader the magic selects
ReadBody ==
    /\ io.pc = "read_body"
    /\ LET total_values == io.width * io.height * 3
           r == IF io.magic = "P3"
                THEN _read_ascii_pixels(disk, handle.pos, total_values, io.max_value)
                ELSE _read_binary_pixels(disk, handle.pos, total_values, io.max_value)
           end == IF total_values < 0 THEN handle.pos
                  ELSE IF io.magic = "P3" THEN Len(disk)
                  ELSE Min(handle.pos + total_values, Len(disk))
       IN  /\ handle' = [handle EXCEPT !.pos = end]
           /\ io' = IF r.ok THEN [io EXCEPT !.pc = "read_exit", !.data = r.data]
                    ELSE [io EXCEPT !.pc = "read_exit", !.exc = r.err]
    /\ UNCHANGED <<bufs, heap, last, disk, polygon, frame, iter, search>>

\* the with block is left; on the normal path read_ppm returns
\* ImageBuffer(width, height, min(max_value, 255), data)
ReadExit ==
    /\ io.pc = "read_exit"
    /\ handle' = WithExit(handle, io.exc)
    /\ IF io.exc = ""
       THEN Store(io.slot, NewBuffer(io.width, io.height, Min(io.max_value, 255), io.data))
       ELSE UNCHANGED <<bufs, heap>>
    /\ last' = Call("read_ppm", "", io.slot, <<>>, IF io.exc = "" THEN "ok" ELSE io.exc, <<>>)
    /\ io' = Idle
    /\ UNCHANGED <<disk, polygon, frame, iter, search>>

\* write_ppm(image, path, binary): open(path, "wb") truncates the file
WriteOpen(src, binary) ==
    /\ io.pc = "idle"
    /\ Exists(src)
    /\ handle' = OpenStream
    /\ disk' = <<>>
    /\ io' = [Idle EXCEPT !.pc = "write_header", !.slot = src, !.binary = binary]
    /\ UNCHANGED <<bufs, heap, last, polygon, frame, iter, search>>

\* stream.write(header.encode("ascii"))
WriteHeader ==
    /\ io.pc = "write_header"
    /\ disk' = disk \o HeaderBytes(Img(io.slot), io.binary)
    /\ handle' = [handle EXCEPT !.pos = Len(disk')]
    /\ io' = [io EXCEPT !.pc = "write_body"]
    /\ UNCHANGED <<bufs, heap, last, polygon, frame, iter, search>>

\* stream.write(bytes(image.data)) or _write_ascii_pixels(image, stream)
WriteBody ==
    /\ io.pc = "write_body"
    /\ disk' = disk \o (IF io.binary THEN Dat(io.slot)
                        ELSE _write_ascii_pixels(Img(io.slot), Dat(io.slot), 0))
    /\ handle' = [handle EXCEPT !.pos = Len(disk')]
    /\ io' = [io EXCEPT !.pc = "write_exit"]
    /\ UNCHANGED <<bufs, heap, last, polygon, frame, iter, search>>

\* the with block is left and write_ppm returns None
WriteExit ==
    /\ io.pc = "write_exit"
    /\ handle' = WithExit(handle, io.exc)
    /\ last' = Call("write_ppm", io.slot, "", <<io.binary>>, "ok", <<>>)
    /\ io' = Idle
    /\ UNCHANGED <<bufs, heap, disk, polygon, frame, iter, search>>

----------------------------------------------------------------------------
(* A run: the first call constructs an image in slot "a"; a pixel of it is   *)
(* read or written, or one transform of it is bound to slot "b" and then a   *)
(* pixel of either buffer is written.                                        *)

Init ==
    /\ bufs = [s \in Slots |-> NoBuf]
    /\ heap = [q \in Refs |-> <<>>]
    /\ last = Call("", "", "", <<>>, "ok", <<>>)
    /\ disk = <<>>
    /\ handle = ClosedStream
    /\ io = Idle
    /\ polygon = <<>>
    /\ frame = NoFrame
    /\ iter = NoIter
    /\ search = NoSearch

Create ==
    /\ last.op = ""
    /\ io.pc = "idle"
    /\ UNCHANGED <<disk, handle, io, polygon, frame, iter, search>>
    /\ \/ \E d \in Dims, mv \in Depths :
            \E color \in IF d[1] > 0 /\ d[2] > 0 THEN {None} \cup ColorsFor(mv) ELSE {None} :
                FromDimensions("a", d[1], d[2], color, mv)
       \/ \E d \in Dims, pixels \in PixelSeqs(255) :
            d[1] >= 0 /\ d[2] >= 0 /\ FromPixels("a", d[1], d[2], pixels, 255)

Access ==
    /\ UNCHANGED <<disk, handle, io, polygon, frame, iter, search>>
    /\ Exists("a")
    /\ last.op \in {"from_dimensions", "from_pixels"}
    /\ \E x \in Coords, y \in Coords :
          \/ GetPixel("a", x, y)
          \/ \E color \in SetColors : SetPixel("a", x, y, color)

Apply ==
    /\ UNCHANGED <<disk, handle, io, polygon, frame, iter, search>>
    /\ Exists("a")
    /\ last.op \in {"from_dimensions", "from_pixels"}
    /\ \/ Copy("a", "b")
       \/ AddConstant("a", "b", <<101, 2>>)
       \/ SubtractConstant("a", "b", <<20, 1>>)
       \/ Multiply("a", "b", <<3, 2>>)
       \/ \E dv \in { <<0, 1>>, <<-2, 1>> } : Divide("a", "b", dv)
       \/ LinearColorScale("a", "b", <<2, 1>>, <<1, 2>>, <<0, 1>>)
       \/ GrayscaleAverage("a", "b")
       \/ GrayscaleLuminance("a", "b")
       \/ \E channel \in Channels : HistogramStretch("a", "b", channel)
       \/ \E channel \in Channels : HistogramEqualization("a", "b", channel)
       \/ \E size \in {1, 2, 3, 5} : MeanFilter("a", "b", size)
       \/ MedianFilter("a", "b", 3)
       \/ SobelEdge("a", "b")
       \/ HighPassSharpen("a", "b")
       \/ \E kernel \in Kernels, ca \in ConvArgs :
             CustomConvolution("a", "b", kernel, ca[1], ca[2])
       \/ \E sigma \in Sigmas : GaussianBlur("a", "b", sigma)
       \/ \E threshold \in Thresholds : ThresholdManual("a", "b", threshold)
       \/ \E percent \in Percents : ThresholdPercentBlack("a", "b", percent)
       \/ \E n \in {0, 100} : ThresholdMeanIterative("a", "b", n)

\* the pixels of the buffer of slot s
PixelCoords(s) == (0..(bufs[s].width - 1)) \X (0..(bufs[s].height - 1))

Edit ==
    /\ UNCHANGED <<disk, handle, io, polygon, frame, iter, search>>
    /\ Exists("a") /\ Exists("b")
    /\ last.op # "set_pixel"
    /\ \E s \in Slots : \E c \in PixelCoords(s), color \in SetColors :
          SetPixel(s, c[1], c[2], color)

Next == Create \/ Access \/ Apply \/ Edit

Spec == Init /\ [][Next]_vars

----------------------------------------------------------------------------
(* Files the codec is given *)

\* the text between the magic and the body: width, height, maxValue with their separators
Headers ==
    { <<10, 49, 32, 49, 10, 50, 53, 53, 10>>,   \* '\n1 1\n255\n'
      <<10, 50, 32, 49, 10, 50, 53, 53, 10>>,   \* '\n2 1\n255\n'
      <<32, 49, 32, 49, 32, 49, 48, 48, 10>>,   \* ' 1 1 100\n'
      <<10, 49, 32, 49, 10, 53, 49, 48, 10>>,   \* '\n1 1\n510\n'
      <<10, 35, 32, 99, 10, 49, 32, 49, 10, 50, 53, 53, 10>>,   \* '\n# c\n1 1\n255\n'
      <<10, 49, 32, 49, 32, 35, 99, 10, 50, 53, 53, 10>>,   \* '\n1 1 #c\n255\n'
      <<10, 49, 32, 49, 35, 99, 10, 50, 53, 53, 10>>,   \* '\n1 1#c\n255\n'
      <<10, 49, 32, 120, 10, 50, 53, 53, 10>>,   \* '\n1 x\n255\n'
      <<10, 49, 32, 49, 10>>,   \* '\n1 1\n'
      <<10, 49, 32, 49, 10, 50, 53, 53>>,   \* '\n1 1\n255'
      <<>>,   \* ''
      <<10, 48, 32, 49, 10, 50, 53, 53, 10>>,   \* '\n0 1\n255\n'
      <<10, 45, 49, 32, 45, 49, 10, 50, 53, 53, 10>>,   \* '\n-1 -1\n255\n'
      <<10, 45, 49, 32, 49, 10, 50, 53, 53, 10>>,   \* '\n-1 1\n255\n'
      <<10, 49, 32, 49, 10, 48, 10>>,   \* '\n1 1\n0\n'
      <<13, 10, 49, 9, 49, 11, 50, 53, 53, 12>>,   \* '\r\n1\t1\x0b255\x0c'
      <<10, 49, 32, 49, 10, 50, 255, 53, 10>>,   \* '\n1 1\n2\xff5\n'
      <<10, 49, 32, 49, 10, 50, 53, 53, 10, 10>> }   \* '\n1 1\n255\n\n'

\* pixel bodies after a P6 header
BinaryBodies ==
    { <<>>,   \* ''
      <<50, 100, 0>>,   \* '2d\x00'
      <<10, 35, 32>>,   \* '\n# '
      <<50, 100>>,   \* '2d'
      <<50, 100, 0, 0>>,   \* '2d\x00\x00'
      <<255, 255, 255>>,   \* '\xff\xff\xff'
      <<35, 10, 32, 13, 0, 32>> }   \* '#\n \r\x00 '

\* pixel bodies after a P3 header
AsciiBodies ==
    { <<>>,   \* ''
      <<53, 48, 32, 49, 48, 48, 32, 48>>,   \* '50 100 0'
      <<53, 48, 32, 49, 48, 48, 32, 48, 10>>,   \* '50 100 0\n'
      <<49, 32, 50>>,   \* '1 2'
      <<49, 32, 50, 35, 99, 10, 51, 10>>,   \* '1 2#c\n3\n'
      <<49, 32, 50, 32, 35, 99, 10, 51, 10>>,   \* '1 2 #c\n3\n'
      <<49, 32, 50, 32, 120>>,   \* '1 2 x'
      <<49, 32, 50, 32, 51, 48, 48>>,   \* '1 2 300'
      <<49, 32, 50, 32, 51, 32, 52>>,   \* '1 2 3 4'
      <<49, 32, 50, 32, 51, 32, 255>>,   \* '1 2 3 \xff'
      <<49, 28, 50, 13, 43, 51>>,   \* '1\x1c2\r+3'
      <<49, 48, 32, 51, 53, 32, 51, 50, 32, 48, 32, 49, 51, 32, 50, 53, 53, 10>>,   \* '10 35 32 0 13 255\n'
      <<50, 53, 53, 32, 50, 53, 53, 32, 53, 49, 48>> }   \* '255 255 510'

\* files that do not start with P3 or P6 and a separator
OtherFiles ==
    { <<>>,   \* ''
      <<80>>,   \* 'P'
      <<80, 53, 10, 49, 32, 49, 10, 50, 53, 53, 10, 50, 100, 0>>,   \* 'P5\n1 1\n255\n2d\x00'
      <<255, 216, 255, 224>>,   \* '\xff\xd8\xff\xe0'
      <<112, 54, 10, 49, 32, 49, 10, 50, 53, 53, 10, 50, 100, 0>>,   \* 'p6\n1 1\n255\n2d\x00'
      <<80, 51, 54, 32, 49, 32, 49, 32, 50, 53, 53, 10, 50, 100, 0>> }   \* 'P36 1 1 255\n2d\x00'

InputFiles ==
    { <<80, 54>> \o h \o b : h \in Headers, b \in BinaryBodies }
        \cup { <<80, 51>> \o h \o b : h \in Headers, b \in AsciiBodies }
        \cup OtherFiles

(* A run of the codec: either the file on disk is read into slot "a", or an  *)
(* image is constructed in slot "a", written to the file (binary or ASCII)   *)
(* and the file is read back into slot "b".                                  *)

InitPPM ==
    /\ bufs = [s \in Slots |-> NoBuf]
    /\ heap = [q \in Refs |-> <<>>]
    /\ last = Call("", "", "", <<>>, "ok", <<>>)
    /\ disk \in InputFiles
    /\ handle = ClosedStream
    /\ io = Idle
    /\ polygon = <<>>
    /\ frame = NoFrame
    /\ iter = NoIter
    /\ search = NoSearch

\* the program loads the file it finds
Load == last.op = "" /\ disk # <<>> /\ ReadOpen("a")

\* the program finds no file and constructs an image
New == disk = <<>> /\ Create

Save == /\ last.op \in {"from_dimensions", "from_pixels"}
        /\ \E binary \in BOOLEAN : WriteOpen("a", binary)

Reload == last.op = "write_ppm" /\ ReadOpen("b")

NextPPM ==
    \/ Load \/ New \/ Save \/ Reload
    \/ ReadHeader \/ ReadBody \/ ReadExit
    \/ WriteHeader \/ WriteBody \/ WriteExit

SpecPPM == InitPPM /\ [][NextPPM]_vars

----------------------------------------------------------------------------
(* A run on a long image: one row made of four runs of pixels, three short   *)
(* dark runs and one long run, so that a histogram has more samples than     *)
(* output levels.                                                            *)

\* length of the long run
LongRun == 255

RunColors == << <<0, 0, 0>>, <<1, 0, 10>>, <<2, 0, 10>>, <<3, 0, 200>> >>

Runs == { <<a, b, 1, d>> : a \in 1..2, b \in 1..2, d \in (LongRun - 1)..(LongRun + 1) }

\* the pixels list handed to from_pixels: run[k] pixels of RunColors[k], in turn
RunPixels(run) ==
    [i \in 1..(run[1] + run[2] + run[3] + run[4]) |->
        IF i <= run[1] THEN RunColors[1]
        ELSE IF i <= run[1] + run[2] THEN RunColors[2]
        ELSE IF i <= run[1] + run[2] + run[3] THEN RunColors[3]
        ELSE RunColors[4]]

CreateLong ==
    /\ last.op = ""
    /\ UNCHANGED <<disk, handle, io, polygon, frame, iter, search>>
    /\ \E run \in Runs :
          FromPixels("a", run[1] + run[2] + run[3] + run[4], 1, RunPixels(run), 255)

ApplyLong ==
    /\ UNCHANGED <<disk, handle, io, polygon, frame, iter, search>>
    /\ Exists("a")
    /\ last.op = "from_pixels"
    /\ \/ \E channel \in Channels : HistogramStretch("a", "b", channel)
       \/ \E channel \in Channels : HistogramEqualization("a", "b", channel)

NextLong == CreateLong \/ ApplyLong

SpecLong == Init /\ [][NextLong]_vars

----------------------------------------------------------------------------
(* A run on a grid image: up to GridWidth columns and two rows, so that a    *)
(* filter window holds several different pixels of the image.               *)

\* most columns of a grid image
GridWidth == 3

GridColors == { <<255, 128, 0>>, <<10, 10, 10>>, <<0, 0, 200>> }

CreateGrid ==
    /\ last.op = ""
    /\ UNCHANGED <<disk, handle, io, polygon, frame, iter, search>>
    /\ \E w \in 1..GridWidth, h \in 1..2 :
          \E pixels \in [1..(w * h) -> GridColors] :
              FromPixels("a", w, h, pixels, 255)

ApplyGrid ==
    /\ UNCHANGED <<disk, handle, io, polygon, frame, iter, search>>
    /\ Exists("a")
    /\ last.op = "from_pixels"
    /\ \E size \in {1, 2, 3, 5} : MedianFilter("a", "b", size)

NextGrid == CreateGrid \/ ApplyGrid

SpecGrid == Init /\ [][NextGrid]_vars

----------------------------------------------------------------------------
(* A run of threshold_mean_iterative, one step per loop iteration, on a      *)
(* one-row image of grey pixels: runs of black, two dark greys and white.    *)

\* longest run of black pixels
IterRun == 3

IterColors == << <<0, 0, 0>>, <<15, 15, 15>>, <<60, 60, 60>>, <<255, 255, 255>> >>

IterRuns == { <<a, b, c, d>> : a \in 0..IterRun, b \in 0..1, c \in 0..1, d \in 0..1 }

\* the pixels list handed to from_pixels: run[k] pixels of IterColors[k], in turn
IterPixels(run) ==
    [i \in 1..(run[1] + run[2] + run[3] + run[4]) |->
        IF i <= run[1] THEN IterColors[1]
        ELSE IF i <= run[1] + run[2] THEN IterColors[2]
        ELSE IF i <= run[1] + run[2] + run[3] THEN IterColors[3]
        ELSE IterColors[4]]

\* threshold_mean_iterative up to its loop: the histogram, the early return
\* for an image without pixels, the initial threshold
MeanIterativeCall(src, dst, max_iterations) ==
    /\ Exists(src)
    /\ iter.pc = "idle"
    /\ LET hist == compute_histogram_grayscale(Dat(src))
           occ == Occupied(hist)
           total_sum == WeightedSum(hist, occ, 0, 256)
           total_pixels == Img(src).width * Img(src).height
       IN  IF total_pixels = 0
           THEN /\ Transform("threshold_mean_iterative", src, dst, <<max_iterations>>,
                             threshold_manual(Img(src), Dat(src), 128))
                /\ UNCHANGED iter
           ELSE /\ iter' = [pc |-> "loop", src |-> src, dst |-> dst,
                            max_iterations |-> max_iterations, hist |-> hist,
                            threshold |-> Trunc(total_sum, total_pixels),
                            iterations |-> 0]
                /\ UNCHANGED <<bufs, heap, last>>

\* a loop over range(max_iterations + 1) that only counts
MeanIterativeStep_once_more ==
    /\ iter.pc = "loop" /\ iter.iterations <= iter.max_iterations
    /\ iter' = [iter EXCEPT !.iterations = iter.iterations + 1]
    /\ UNCHANGED <<bufs, heap, last>>

\* one iteration of "for _ in range(max_iterations)": it breaks, or it
\* replaces the threshold
MeanIterativeStep ==
    /\ iter.pc = "loop" /\ iter.iterations < iter.max_iterations
    /\ LET hist == iter.hist
           occ == Occupied(hist)
           sum_below == WeightedSum(hist, occ, 0, iter.threshold)
           count_below == CountSum(hist, occ, 0, iter.threshold)
           sum_above == WeightedSum(hist, occ, iter.threshold, 256)
           count_above == CountSum(hist, occ, iter.threshold, 256)
           new_threshold == Trunc(sum_below * count_above + sum_above * count_below,
                                  2 * count_below * count_above)
       IN  IF count_below = 0 \/ count_above = 0
           THEN iter' = [iter EXCEPT !.pc = "return", !.iterations = iter.iterations + 1]
           ELSE IF new_threshold = iter.threshold
           THEN iter' = [iter EXCEPT !.pc = "return", !.iterations = iter.iterations + 1]
           ELSE iter' = [iter EXCEPT !.threshold = new_threshold,
                                     !.iterations = iter.iterations + 1]
    /\ UNCHANGED <<bufs, heap, last>>

\* after a break or when the range is exhausted: return threshold_manual(image, threshold)
MeanIterativeReturn ==
    /\ \/ iter.pc = "return"
       \/ iter.pc = "loop" /\ iter.iterations >= iter.max_iterations
    /\ Transform("threshold_mean_iterative", iter.src, iter.dst, <<iter.max_iterations>>,
                 threshold_manual(Img(iter.src), Dat(iter.src), iter.threshold))
    /\ iter' = NoIter

CreateIter ==
    /\ last.op = ""
    /\ UNCHANGED <<disk, handle, io, polygon, frame, iter, search>>
    /\ \E run \in IterRuns :
          FromPixels("a", run[1] + run[2] + run[3] + run[4], 1, IterPixels(run), 255)

CallIter ==
    /\ UNCHANGED <<disk, handle, io, polygon, frame, search>>
    /\ last.op = "from_pixels"
    /\ \E max_iterations \in {0, 1, 2, 100} : MeanIterativeCall("a", "b", max_iterations)

RunIter ==
    /\ UNCHANGED <<disk, handle, io, polygon, frame, search>>
    /\ MeanIterativeStep \/ MeanIterativeReturn

NextIter == CreateIter \/ CallIter \/ RunIter

SpecIter == Init /\ [][NextIter]_vars

\* the loop is not left in the middle: an enabled iteration or return is taken
FairIter == SpecIter /\ WF_vars(RunIter)

----------------------------------------------------------------------------
(* A run of threshold_entropy, threshold_minimum_error or                    *)
(* threshold_fuzzy_minimum_error, one step per candidate t, on a one-row     *)
(* image of dark greys: a run of black and at most one pixel of each of the  *)
(* luminances 1..4, or on a one-row image of a single bright grey.           *)

\* longest run of black pixels
SearchRun == 2

SearchColors == << <<0, 0, 0>>, <<1, 1, 1>>, <<2, 2, 2>>, <<3, 3, 3>>, <<4, 4, 4>> >>

SearchRuns ==
    { <<a, b, c, d, e>> : a \in 0..SearchRun, b \in 0..1, c \in 0..1, d \in 0..1, e \in 0..1 }

\* the pixels list handed to from_pixels: run[k] pixels of SearchColors[k], in turn
SearchPixels(run) ==
    [i \in 1..(run[1] + run[2] + run[3] + run[4] + run[5]) |->
        IF i <= run[1] THEN SearchColors[1]
        ELSE IF i <= run[1] + run[2] THEN SearchColors[2]
        ELSE IF i <= run[1] + run[2] + run[3] THEN SearchColors[3]
        ELSE IF i <= run[1] + run[2] + run[3] + run[4] THEN SearchColors[4]
        ELSE SearchColors[5]]

\* one-row images of n pixels of one grey
BrightGreys == { <<128, 128, 128>>, <<200, 200, 200>>, <<255, 255, 255>> }

Methods == { "threshold_entropy", "threshold_minimum_error", "threshold_fuzzy_minimum_error" }

\* a search whose best_threshold starts at 0
SearchCall_from_zero(method, src, dst) ==
    /\ Exists(src)
    /\ search.pc = "idle"
    /\ LET hist == compute_histogram_grayscale(Dat(src))
           total_pixels == Img(src).width * Img(src).height
       IN  IF total_pixels = 0
           THEN /\ Transform(method, src, dst, <<>>, threshold_manual(Img(src), Dat(src), 128))
                /\ UNCHANGED search
           ELSE /\ search' = [pc |-> "loop", method |-> method, src |-> src, dst |-> dst,
                              hist |-> hist, t |-> 1, best_threshold |-> 0, best |-> <<>>]
                /\ UNCHANGED <<bufs, heap, last>>

\* a search up to its loop: the histogram, the early return for an image
\* without pixels, best_threshold = 128 and the score at -inf or inf
SearchCall(method, src, dst) ==
    /\ Exists(src)
    /\ search.pc = "idle"
    /\ LET hist == compute_histogram_grayscale(Dat(src))
           total_pixels == Img(src).width * Img(src).height
       IN  IF total_pixels = 0
           THEN /\ Transform(method, src, dst, <<>>, threshold_manual(Img(src), Dat(src), 128))
                /\ UNCHANGED search
           ELSE /\ search' = [pc |-> "loop", method |-> method, src |-> src, dst |-> dst,
                              hist |-> hist, t |-> 1, best_threshold |-> 128, best |-> <<>>]
                /\ UNCHANGED <<bufs, heap, last>>

\* one iteration of "for t in range(1, 255)": the candidate t is skipped, or
\* it replaces the best so far, or it is left behind
SearchStep ==
    /\ search.pc = "loop" /\ search.t < 255
    /\ LET c == Candidate(search.method, search.hist,
                          Img(search.src).width * Img(search.src).height, search.t)
       IN  IF ~c.ok
           THEN search' = [search EXCEPT !.t = search.t + 1]
           ELSE IF Improves(search.method, c.score, search.best)
           THEN search' = [search EXCEPT !.t = search.t + 1, !.best = c.score,
                                         !.best_threshold = search.t]
           ELSE search' = [search EXCEPT !.t = search.t + 1]
    /\ UNCHANGED <<bufs, heap, last>>

\* when the range is exhausted: return threshold_manual(image, best_threshold)
SearchReturn ==
    /\ search.pc = "loop" /\ search.t >= 255
    /\ Transform(search.method, search.src, search.dst, <<>>,
                 threshold_manual(Img(search.src), Dat(search.src), search.best_threshold))
    /\ search' = NoSearch

CreateSearch ==
    /\ last.op = ""
    /\ UNCHANGED <<disk, handle, io, polygon, frame, iter, search>>
    /\ \/ \E run \in SearchRuns :
             FromPixels("a", run[1] + run[2] + run[3] + run[4] + run[5], 1,
                        SearchPixels(run), 255)
       \/ \E n \in 1..2, grey \in BrightGreys :
             FromPixels("a", n, 1, [i \in 1..n |-> grey], 255)

CallSearch ==
    /\ UNCHANGED <<disk, handle, io, polygon, frame, iter>>
    /\ last.op = "from_pixels"
    /\ \E method \in Methods : SearchCall(method, "a", "b")

RunSearch ==
    /\ UNCHANGED <<disk, handle, io, polygon, frame, iter>>
    /\ SearchStep \/ SearchReturn

NextSearch == CreateSearch \/ CallSearch \/ RunSearch

SpecSearch == Init /\ [][NextSearch]_vars

----------------------------------------------------------------------------
(* bezier.py: a parameter t is the rational t[1]/t[2] with t[2] > 0, a point  *)
(* of a curve the rational pair (q[1]/q[3], q[2]/q[3])                       *)

\* an iteration that divides before it multiplies: result // (i + 1) * (n - i)
BinomialBody_divide_first(result, n, i) == (result \div (i + 1)) * (n - i)

\* one iteration of the loop of binomial_coefficient: result * (n - i) // (i + 1)
BinomialBody(result, n, i) == (result * (n - i)) \div (i + 1)

RECURSIVE BinomialLoop(_, _, _, _)
\* for i in range(k): result = result * (n - i) // (i + 1), from iteration i on
BinomialLoop(n, k, i, result) ==
    IF i >= k THEN result ELSE BinomialLoop(n, k, i + 1, BinomialBody(result, n, i))

binomial_coefficient(n, k) ==
    IF k < 0 \/ k > n THEN 0
    ELSE IF k = 0 \/ k = n THEN 1
    ELSE BinomialLoop(n, Min(k, n - k), 0, 1)

RECURSIVE Power(_, _)
\* b ** e for an integer e >= 0
Power(b, e) == IF e <= 0 THEN 1 ELSE b * Power(b, e - 1)

\* bernstein_polynomial(n, i, t) as the numerator over the denominator t[2] ** n
bernstein_polynomial(n, i, t) ==
    IF t[1] < 0 \/ t[1] > t[2] THEN 0
    ELSE binomial_coefficient(n, i) * Power(t[1], i) * Power(t[2] - t[1], n - i)

bezier_curve_point(control_points, t) ==
    IF control_points = <<>> THEN <<0, 0, 1>>
    ELSE LET n == Len(control_points) - 1
             b(i) == bernstein_polynomial(n, i - 1, t)
         IN  << SumSeq([i \in 1..Len(control_points) |-> b(i) * control_points[i][1]]),
                SumSeq([i \in 1..Len(control_points) |-> b(i) * control_points[i][2]]),
                Power(t[2], n) >>

\* the sums numerator_x, numerator_y and denominator share the factor
\* 1 / t[2] ** n, which the two quotients cancel; a denominator below 1e-10 in
\* magnitude is the denominator 0, the weights being integers
rational_bezier_curve_point(control_points, weights, t) ==
    IF control_points = <<>> \/ Len(control_points) # Len(weights) THEN <<0, 0, 1>>
    ELSE LET n == Len(control_points) - 1
             wb(i) == weights[i] * bernstein_polynomial(n, i - 1, t)
             numerator_x == SumSeq([i \in 1..Len(control_points) |-> wb(i) * control_points[i][1]])
             numerator_y == SumSeq([i \in 1..Len(control_points) |-> wb(i) * control_points[i][2]])
             denominator == SumSeq([i \in 1..Len(control_points) |-> wb(i)])
         IN  IF denominator = 0 THEN <<0, 0, 1>>
             ELSE <<numerator_x, numerator_y, denominator>>

\* generate_bezier_curve; weights is <<FALSE, <<>>>> for None and <<TRUE, w>> for
\* the list w. The result is the list returned or the exception raised.
generate_bezier_curve(control_points, num_samples, weights) ==
    IF Len(control_points) < 2
    THEN [ok |-> TRUE, err |-> "", points |-> control_points]
    ELSE LET is_rational == weights[1] /\ Len(weights[2]) = Len(control_points)
         IN  IF num_samples = 0
             THEN [ok |-> FALSE, err |-> "ZeroDivisionError", points |-> <<>>]
             ELSE [ok |-> TRUE, err |-> "",
                   points |-> [j \in 1..(num_samples + 1) |->
                                  LET t == <<j - 1, num_samples>>
                                  IN  IF is_rational
                                      THEN rational_bezier_curve_point(control_points, weights[2], t)
                                      ELSE bezier_curve_point(control_points, t)]]

----------------------------------------------------------------------------
(* geometry2d.py: coordinates and radii are integers *)

distance2(a, b) ==
    LET dx == a[1] - b[1]
        dy == a[2] - b[2]
    IN  dx * dx + dy * dy

RECURSIVE NearestLoop(_, _, _, _, _)
\* the loop of nearest_vertex from index i on (0-based, as enumerate counts);
\* best is None or <<best_i, best_d2>>, None standing for best_d2 = 1e30,
\* which no distance between modelled points reaches
NearestLoop(points, p, r2, i, best) ==
    IF i >= Len(points) THEN best
    ELSE LET d2 == distance2(p, points[i + 1])
         IN  IF d2 <= r2 /\ (best = None \/ d2 < best[2])
             THEN NearestLoop(points, p, r2, i + 1, <<i, d2>>)
             ELSE NearestLoop(points, p, r2, i + 1, best)

\* Polygon.nearest_vertex: None or <<best_i>>
nearest_vertex(points, p, radius) ==
    IF points = <<>> THEN None
    ELSE LET best == NearestLoop(points, p, radius * radius, 0, None)
         IN  IF best = None THEN None ELSE <<best[1]>>

----------------------------------------------------------------------------
(* Calls on the curve and polygon functions *)

\* largest n and k + 1 handed to binomial_coefficient
MaxN == 11
\* largest number of vertices of the polygon
MaxVertices == 2
\* largest number of control points
MaxControls == 3
\* largest num_samples
MaxSamples == 3

GeoPoints == { <<0, 0>>, <<3, 4>>, <<4, 3>>, <<6, 8>> }
Polygons == UNION { [1..n -> GeoPoints] : n \in 0..MaxVertices }
Radii == {-6, 0, 5, 6, 10}
ControlPoints == UNION { [1..n -> { <<0, 0>>, <<2, 4>> }] : n \in 0..MaxControls }
\* None, the empty list, and lists of two and three weights
WeightArgs == { <<FALSE, <<>>>>, <<TRUE, <<>>>>, <<TRUE, <<1, 2>>>>, <<TRUE, <<1, -1>>>>,
                <<TRUE, <<1, 2, 1>>>> }

NearestVertex(p, radius) ==
    /\ last' = Call("nearest_vertex", "", "", <<p, radius>>, "ok",
                    nearest_vertex(polygon, p, radius))
    /\ UNCHANGED <<polygon, frame>>

GenerateBezierCurve(control_points, num_samples, weights) ==
    LET r == generate_bezier_curve(control_points, num_samples, weights)
    IN  /\ last' = Call("generate_bezier_curve", "", "",
                        <<control_points, num_samples, weights>>, Status(r), r.points)
        /\ UNCHANGED <<polygon, frame>>

\* binomial_coefficient(n, k) up to its loop: the two early returns, or
\* k = min(k, n - k); result = 1
BinomialCall(n, k) ==
    /\ frame.pc = "idle"
    /\ IF k < 0 \/ k > n
       THEN /\ last' = Call("binomial_coefficient", "", "", <<n, k>>, "ok", <<0>>)
            /\ UNCHANGED frame
       ELSE IF k = 0 \/ k = n
       THEN /\ last' = Call("binomial_coefficient", "", "", <<n, k>>, "ok", <<1>>)
            /\ UNCHANGED frame
       ELSE /\ frame' = [pc |-> "loop", n |-> n, k |-> Min(k, n - k), i |-> 0, result |-> 1,
                         args |-> <<n, k>>]
            /\ UNCHANGED last
    /\ UNCHANGED polygon

\* one iteration of "for i in range(k)"
BinomialStep ==
    /\ frame.pc = "loop" /\ frame.i < frame.k
    /\ frame' = [frame EXCEPT !.result = BinomialBody(frame.result, frame.n, frame.i),
                              !.i = frame.i + 1]
    /\ UNCHANGED <<polygon, last>>

\* the range is exhausted: return result
BinomialReturn ==
    /\ frame.pc = "loop" /\ frame.i >= frame.k
    /\ last' = Call("binomial_coefficient", "", "", frame.args, "ok", <<frame.result>>)
    /\ frame' = NoFrame
    /\ UNCHANGED polygon

(* A run: a polygon exists; one function is called and runs to its return.  *)

InitGeom ==
    /\ bufs = [s \in Slots |-> NoBuf]
    /\ heap = [q \in Refs |-> <<>>]
    /\ last = Call("", "", "", <<>>, "ok", <<>>)
    /\ disk = <<>>
    /\ handle = ClosedStream
    /\ io = Idle
    /\ polygon \in Polygons
    /\ frame = NoFrame
    /\ iter = NoIter
    /\ search = NoSearch

CallGeom ==
    /\ last.op = "" /\ frame.pc = "idle"
    /\ UNCHANGED <<bufs, heap, disk, handle, io, iter, search>>
    /\ \/ \E p \in GeoPoints, radius \in Radii : NearestVertex(p, radius)
       \/ \E control_points \in ControlPoints, num_samples \in -2..MaxSamples,
             weights \in WeightArgs :
             GenerateBezierCurve(control_points, num_samples, weights)
       \/ \E n \in -1..MaxN, k \in -1..(MaxN + 1) : BinomialCall(n, k)

RunGeom ==
    /\ UNCHANGED <<bufs, heap, disk, handle, io, iter, search>>
    /\ BinomialStep \/ BinomialReturn

NextGeom == CallGeom \/ RunGeom

SpecGeom == InitGeom /\ [][NextGeom]_vars

----------------------------------------------------------------------------
(* Properties of the buffer *)

TransformOps ==
    { "copy", "add_constant", "subtract_constant", "multiply", "divide",
      "linear_color_scale", "grayscale_average", "grayscale_luminance",
      "histogram_stretch", "histogram_equalization", "mean_filter", "median_filter",
      "sobel_edge", "high_pass_sharpen", "custom_convolution", "gaussian_blur",
      "threshold_manual",
      "threshold_percent_black", "threshold_mean_iterative" }

\* the buffer of slot s has width*height*3 samples, each in [0, max_value]
WellFormed(s) ==
    /\ Len(Dat(s)) = bufs[s].width * bufs[s].height * 3
    /\ \A i \in 1..Len(Dat(s)) : 0 <= Dat(s)[i] /\ Dat(s)[i] <= bufs[s].max_value

\* C1: every buffer there is has len(data) = width*height*3 and every sample
\* in [0, max_value], whatever calls built it.
C1_BufferInvariant == \A s \in Slots : Exists(s) => WellFormed(s)

C3_FromDimensions ==
    last.op = "from_dimensions" =>
        LET w == last.args[1]
            h == last.args[2]
            color == last.args[3]
            want == IF color = None THEN <<0, 0, 0>> ELSE color
        IN  IF w <= 0 \/ h <= 0
            THEN last.status = "ValueError" /\ ~Exists(last.dst)
            ELSE /\ last.status = "ok"
                 /\ bufs[last.dst].width = w /\ bufs[last.dst].height = h
                 /\ \A x \in 0..(w - 1), y \in 0..(h - 1) :
                       LET got == get_pixel(bufs[last.dst], Dat(last.dst), x, y)
                       IN  got.ok /\ got.pixel = want

\* an image of two pixels filled with a colour that has a zero channel
C3_Witness ==
    /\ last.op = "from_dimensions" /\ last.status = "ok"
    /\ last.args[1] * last.args[2] = 2
    /\ last.args[3] = <<255, 128, 0>>
    /\ get_pixel(bufs["a"], Dat("a"), last.args[1] - 1, last.args[2] - 1).pixel = <<255, 128, 0>>

\* v is clamp(round(n/d)) into [0, mv]: the integer nearest to n/d, the even
\* one of two equally near, then cut to [0, mv]
RoundedClamped(v, n, d, mv) ==
    \E r \in ((n \div d) - 1)..((n \div d) + 1) :
        /\ 2 * (IF r * d >= n THEN r * d - n ELSE n - r * d) <= d
        /\ (2 * (IF r * d >= n THEN r * d - n ELSE n - r * d) = d) => r % 2 = 0
        /\ v = (IF r < 0 THEN 0 ELSE IF r > mv THEN mv ELSE r)

InBounds(img, x, y) == x \in 0..(img.width - 1) /\ y \in 0..(img.height - 1)

\* C4: get_pixel and set_pixel outside [0,w) x [0,h) raise IndexError and
\* change nothing; set_pixel inside stores clamp(round(c)) of each channel at
\* (y*width + x)*3 .. +2, changes no other byte, and get_pixel(x, y) then
\* returns the clamped colour; get_pixel inside returns the three bytes there.
C4_PixelAccess ==
    [][ LET c == last'
            img == bufs[c.src]
            old == heap[img.ref]
            new == heap'[img.ref]
            x == c.args[1]
            y == c.args[2]
            at == (y * img.width + x) * 3
        IN  /\ (c.op \in {"get_pixel", "set_pixel"} /\ ~InBounds(img, x, y)) =>
                 (c.status = "IndexError" /\ bufs' = bufs /\ heap' = heap)
            /\ (c.op = "get_pixel" /\ InBounds(img, x, y)) =>
                 /\ c.status = "ok" /\ bufs' = bufs /\ heap' = heap
                 /\ c.ret = <<old[at + 1], old[at + 2], old[at + 3]>>
            /\ (c.op = "set_pixel" /\ InBounds(img, x, y)) =>
                 /\ c.status = "ok" /\ bufs' = bufs
                 /\ Len(new) = Len(old)
                 /\ \A i \in 1..Len(old) : (i <= at \/ i > at + 3) => new[i] = old[i]
                 /\ \A k \in 1..3 :
                       RoundedClamped(new[at + k], c.args[3][k][1], c.args[3][k][2],
                                      img.max_value)
                 /\ get_pixel(bufs'[c.src], new, x, y).pixel
                       = <<new[at + 1], new[at + 2], new[at + 3]>>
      ]_vars

\* the second pixel of a two-pixel image has been set to a colour with
\* channels below 0, above 255 and halfway between two integers
C4_Witness ==
    /\ last.op = "set_pixel" /\ last.status = "ok"
    /\ bufs[last.src].width * bufs[last.src].height = 2
    /\ last.args[1] + last.args[2] = 1
    /\ last.args[3] = << <<-5, 1>>, <<601, 2>>, <<255, 2>> >>
    /\ bufs[last.src].max_value = 255
    /\ SubSeq(Dat(last.src), 4, 6) = <<0, 255, 128>>

\* the lowest and highest value of channel c of data are 0 and 255
Spans(data, c) ==
    /\ \E i \in ChannelIdx(data, c) : data[i] = 0
    /\ \E i \in ChannelIdx(data, c) : data[i] = 255

\* the channels histogram_stretch(channel) works on
Targets(channel) == IF channel \in {0, 1, 2} THEN {channel} ELSE {0, 1, 2}

----------------------------------------------------------------------------
(* Properties of the codec *)

\* a token made of decimal digits only
IsDecimal(token) == token # <<>> /\ \A i \in 1..Len(token) : token[i] \in 48..57

\* the separator-delimited fields of the bytes after position pos, read as the
\* format describes them: whitespace separates, and a '#' ends the field before
\* it and starts a comment that runs to the end of the line
RECURSIVE FormatFields(_, _, _, _, _)
FormatFields(file, pos, field, comment, fields) ==
    IF pos >= Len(file)
    THEN IF field # <<>> THEN Append(fields, field) ELSE fields
    ELSE LET ch == file[pos + 1]
             flushed == IF field # <<>> THEN Append(fields, field) ELSE fields
         IN  IF comment THEN FormatFields(file, pos + 1, <<>>, ch \notin {10, 13}, fields)
             ELSE IF ch = 35 THEN FormatFields(file, pos + 1, <<>>, TRUE, flushed)
             ELSE IF isspace(ch) THEN FormatFields(file, pos + 1, <<>>, FALSE, flushed)
             ELSE FormatFields(file, pos + 1, Append(field, ch), FALSE, fields)

\* the fields of the header of a file that starts with a two-byte magic
HeaderFields(file) ==
    LET all == FormatFields(file, 2, <<>>, FALSE, <<>>)
    IN  SubSeq(all, 1, Min(3, Len(all)))

\* decimal digits with an optional sign
IsInteger(token) ==
    IF token # <<>> /\ token[1] \in {43, 45} THEN IsDecimal(Tail(token)) ELSE IsDecimal(token)

\* the header is malformed: no P3/P6 magic, fewer than three fields, or a
\* field that is not a decimal integer
MalformedHeader(file) ==
    \/ SubSeq(file, 1, Min(2, Len(file))) \notin { <<80, 51>>, <<80, 54>> }
    \/ Len(HeaderFields(file)) < 3
    \/ \E i \in 1..Len(HeaderFields(file)) : ~IsInteger(HeaderFields(file)[i])

\* a header of three unsigned decimal fields, positive dimensions and maxValue,
\* without comments
PlainHeader(file) ==
    /\ ~MalformedHeader(file)
    /\ \A i \in 1..3 : IsDecimal(HeaderFields(file)[i])
    /\ \A i \in 1..3 : DigitsValue(HeaderFields(file)[i]) > 0
    /\ \A i \in 1..(_read_header(file, 0).pos) : file[i] # 35

HeaderWidth(file) == DigitsValue(HeaderFields(file)[1])
HeaderHeight(file) == DigitsValue(HeaderFields(file)[2])
HeaderMaxValue(file) == DigitsValue(HeaderFields(file)[3])

\* the raw samples of the body of a file with a plain header: the bytes after
\* the one separator that ends the header (P6), the fields after it (P3)
BodySamples(file) ==
    LET start == _read_header(file, 0).pos
        fields == FormatFields(file, start, <<>>, FALSE, <<>>)
    IN  IF file[2] = 54 THEN SubSeq(file, start + 1, Len(file))
        ELSE [i \in 1..Len(fields) |-> IF IsDecimal(fields[i]) THEN DigitsValue(fields[i]) ELSE -1]

\* every raw sample is a value 0..maxValue
ValidSamples(file) ==
    \A i \in 1..Len(BodySamples(file)) :
        BodySamples(file)[i] \in 0..HeaderMaxValue(file)

\* C5: when write_ppm(buffer, binary=True) of a buffer with max_value 255 and
\* positive dimensions has returned and read_ppm of the file returns next, it
\* returns a buffer with the same width, height, max_value and bytes.
C5_BinaryRoundTrip ==
    [][ ( /\ last.op = "write_ppm" /\ last.status = "ok" /\ last.args = <<TRUE>>
          /\ bufs[last.src].max_value = 255
          /\ bufs[last.src].width > 0 /\ bufs[last.src].height > 0
          /\ last'.op = "read_ppm" )
        => /\ last'.status = "ok"
           /\ bufs'[last'.dst].width = bufs[last.src].width
           /\ bufs'[last'.dst].height = bufs[last.src].height
           /\ bufs'[last'.dst].max_value = 255
           /\ bufs'[last'.dst].ref # bufs'[last.src].ref
           /\ heap'[bufs'[last'.dst].ref] = heap[bufs[last.src].ref]
      ]_vars

\* a binary file of two pixels whose data starts with '#', space, CR has been read back
C5_Witness ==
    /\ last.op = "read_ppm" /\ last.status = "ok" /\ last.dst = "b"
    /\ disk = <<80, 54, 10, 50, 32, 49, 10, 50, 53, 53, 10, 35, 32, 13, 10, 10, 10>>
    /\ Dat("a") = <<35, 32, 13, 10, 10, 10>>
    /\ Dat("b") = Dat("a")

\* C6: read_ppm of a file with a malformed header raises PPMFormatError and
\* returns no buffer.
C6_MalformedHeader ==
    (last.op = "read_ppm" /\ last.dst = "a" /\ MalformedHeader(disk))
        => (last.status = "PPMFormatError" /\ ~Exists("a"))

\* C7: after a plain header and with valid samples, read_ppm raises
\* PPMFormatError when the body holds fewer than width*height*3 samples and
\* otherwise returns a buffer of exactly width*height*3 samples.
C7_TruncatedBody ==
    (last.op = "read_ppm" /\ last.dst = "a" /\ PlainHeader(disk) /\ ValidSamples(disk))
        => LET total == HeaderWidth(disk) * HeaderHeight(disk) * 3
           IN  IF Len(BodySamples(disk)) < total
               THEN last.status = "PPMFormatError" /\ ~Exists("a")
               ELSE /\ last.status = "ok"
                    /\ bufs["a"].width = HeaderWidth(disk)
                    /\ bufs["a"].height = HeaderHeight(disk)
                    /\ Len(Dat("a")) = total

\* C8: after a plain header and a complete body of valid samples, sample v is
\* stored as round(v / maxValue * 255) when maxValue is not 255 and unchanged
\* when it is, the buffer's max_value is min(maxValue, 255) and every stored
\* value is in [0,255].
C8_Rescale ==
    ( /\ last.op = "read_ppm" /\ last.dst = "a" /\ PlainHeader(disk) /\ ValidSamples(disk)
      /\ \A i \in 1..Len(disk) : disk[2] = 51 => disk[i] # 35
      /\ Len(BodySamples(disk)) >= HeaderWidth(disk) * HeaderHeight(disk) * 3 )
        => /\ last.status = "ok"
           /\ bufs["a"].max_value = Min(HeaderMaxValue(disk), 255)
           /\ \A i \in 1..Len(Dat("a")) :
                 /\ Dat("a")[i] \in 0..255
                 /\ Dat("a")[i] = IF HeaderMaxValue(disk) = 255 THEN BodySamples(disk)[i]
                                  ELSE RoundHalfEven(BodySamples(disk)[i] * 255,
                                                     HeaderMaxValue(disk))

\* C9: when no codec call is in progress the file object is closed, whether the
\* call returned or raised, and every statement of read_ppm and write_ppm that
\* reads or writes the stream runs while it is open.
C9_HandleReleased ==
    /\ io.pc = "idle" => ~handle.open
    /\ io.pc \in {"read_header", "read_body", "write_header", "write_body"} => handle.open

\* read_ppm has raised PPMFormatError on a truncated body after reading the whole file
C9_Witness ==
    /\ last.op = "read_ppm" /\ last.status = "PPMFormatError"
    /\ io.pc = "idle" /\ ~handle.open
    /\ disk = <<80, 54, 10, 49, 32, 49, 10, 50, 53, 53, 10, 50, 100>>
    /\ handle.pos = Len(disk)

----------------------------------------------------------------------------
(* Properties of the histogram operations on long images *)

\* cdf_min of channel c of data: the cumulative count at the lowest occupied intensity
CdfMin(data, c) ==
    LET hist == compute_histogram(data, c)
        occ == Occupied(hist)
    IN  SetMin({ Cdf(hist, occ, i) : i \in occ })

\* C11: right after histogram_equalization(img, channel), for every targeted
\* channel c of img whose cdf_min is below the pixel count, equalizing the
\* result again with the same argument leaves the samples of c as they are.
C11_EqualizeIdempotent ==
    (last.op = "histogram_equalization" /\ last.status = "ok") =>
        \A c \in Targets(last.args[1]) :
            CdfMin(Dat(last.src), c) < Img(last.src).width * Img(last.src).height =>
                LET again == histogram_equalization(Img(last.dst), Dat(last.dst), last.args[1]).data
                IN  \A i \in ChannelIdx(Dat(last.dst), c) : again[i] = Dat(last.dst)[i]

\* C20: right after histogram_stretch(img, c) on a single channel c, with min
\* and max the lowest and highest value of c in img: the result's data is
\* img's when min >= max; otherwise every sample old of c has become
\* clamp(round((old - min) * 255 / (max - min))), so a sample equal to min is 0
\* and one equal to max is 255, and the samples of the other channels are
\* img's.
C20_StretchChannel ==
    (last.op = "histogram_stretch" /\ last.args[1] \in {0, 1, 2}) =>
        LET c == last.args[1]
            src == Dat(last.src)
            dst == Dat(last.dst)
            vals == { src[i] : i \in ChannelIdx(src, c) }
        IN  /\ last.status = "ok"
            /\ Len(dst) = Len(src)
            /\ IF vals = {} \/ SetMin(vals) >= SetMax(vals)
               THEN dst = src
               ELSE \A i \in 1..Len(src) :
                       /\ i \notin ChannelIdx(src, c) => dst[i] = src[i]
                       /\ i \in ChannelIdx(src, c) =>
                             /\ dst[i] = clamp(Img(last.src).max_value,
                                               (src[i] - SetMin(vals)) * 255,
                                               SetMax(vals) - SetMin(vals))
                             /\ src[i] = SetMin(vals) => dst[i] = 0
                             /\ src[i] = SetMax(vals) => dst[i] = 255

----------------------------------------------------------------------------
(* Properties of the binarization *)

\* C12: threshold_manual(img, t) raises ValueError and builds no buffer when t
\* is outside 0..255; otherwise every pixel of the result has its three samples
\* equal to 255 when int(0.2126*r + 0.7152*g + 0.0722*b) >= t and equal to 0
\* when not, and for t = 0 every sample of the result is 255.
C12_ThresholdManual ==
    last.op = "threshold_manual" =>
        LET t == last.args[1]
            src == Dat(last.src)
        IN  IF t < 0 \/ t > 255
            THEN last.status = "ValueError" /\ ~Exists(last.dst)
            ELSE /\ last.status = "ok"
                 /\ Len(Dat(last.dst)) = Len(src)
                 /\ \A i \in PixelIdx(src) :
                       LET value == IF Luminance(src[i], src[i + 1], src[i + 2]) >= t
                                    THEN 255 ELSE 0
                       IN  PixelAt(Dat(last.dst), i) = <<value, value, value>>
                 /\ t = 0 => \A i \in 1..Len(src) : Dat(last.dst)[i] = 255

\* (255,128,0),(10,10,10) under threshold 128: one white and one black pixel
C12_Witness ==
    /\ last.op = "threshold_manual" /\ last.status = "ok" /\ last.args = <<128>>
    /\ Dat(last.src) = <<255, 128, 0, 10, 10, 10>>
    /\ Dat(last.dst) = <<255, 255, 255, 0, 0, 0>>

\* threshold 256 is rejected and threshold 0 turns a black pixel white
C12_WitnessEdges ==
    \/ last.op = "threshold_manual" /\ last.status = "ValueError" /\ last.args = <<256>>
    \/ /\ last.op = "threshold_manual" /\ last.args = <<0>>
       /\ Dat(last.src) = <<0, 0, 0>> /\ Dat(last.dst) = <<255, 255, 255>>

\* C13: right after threshold_percent_black(img, p) with 0 <= p <= 100 the
\* result has at least int(totalPixels * p / 100) black pixels, no black pixel
\* has a higher luminance than a white one, and the 2x1 image (10,10,10),
\* (200,200,200) with p = 50 gives [0,0,0, 255,255,255].
C13_PercentBlack ==
    (last.op = "threshold_percent_black" /\ last.args[1] \in 0..100) =>
        LET src == Dat(last.src)
            dst == Dat(last.dst)
            black == { i \in PixelIdx(src) : dst[i] = 0 }
            lum(i) == Luminance(src[i], src[i + 1], src[i + 2])
        IN  /\ last.status = "ok"
            /\ Cardinality(black) >=
                  Trunc(Img(last.src).width * Img(last.src).height * last.args[1], 100)
            /\ \A i \in black, j \in PixelIdx(src) \ black : lum(i) <= lum(j)
            /\ (src = <<10, 10, 10, 200, 200, 200>> /\ last.args[1] = 50) =>
                  dst = <<0, 0, 0, 255, 255, 255>>

----------------------------------------------------------------------------
(* Properties of the filters *)

\* every pixel of data is the pixel at its start
Uniform(data) == \A i \in 1..Len(data) : data[i] = data[((i - 1) % 3) + 1]

SquareOdd(kernel) ==
    Len(kernel) % 2 = 1 /\ \A ky \in 1..Len(kernel) : Len(kernel[ky]) = Len(kernel)

\* C15: a custom_convolution call whose kernel is not square with an odd side,
\* and a gaussian_blur call whose sigma is not positive, raise ValueError, bind
\* no buffer and leave every buffer and its data as they were.
C15_InvalidArguments ==
    [][ ( \/ last'.op = "custom_convolution" /\ ~SquareOdd(last'.args[1])
          \/ last'.op = "gaussian_blur" /\ last'.args[1][1] <= 0 )
            => /\ last'.status = "ValueError"
               /\ bufs' = bufs
               /\ heap' = heap ]_vars

\* a 4x4 kernel has been rejected: the input is there and no result is bound
C15_Witness ==
    /\ last.op = "custom_convolution" /\ last.status = "ValueError"
    /\ Len(last.args[1]) = 4 /\ \A ky \in 1..4 : Len(last.args[1][ky]) = 4
    /\ Exists(last.src) /\ ~Exists(last.dst)
    /\ Dat(last.src) = <<255, 128, 0, 10, 10, 10>>

\* sigma = 0 has been rejected
C15_WitnessSigma ==
    /\ last.op = "gaussian_blur" /\ last.status = "ValueError" /\ last.args = << <<0, 1>> >>
    /\ Exists(last.src) /\ ~Exists(last.dst)

\* sigma = 1 has blurred (255,128,0),(10,10,10) into a new buffer
C15_WitnessBlur ==
    /\ last.op = "gaussian_blur" /\ last.status = "ok" /\ last.args = << <<1, 1>> >>
    /\ Dat(last.src) = <<255, 128, 0, 10, 10, 10>>
    /\ Dat(last.dst) # Dat(last.src)

----------------------------------------------------------------------------
(* Properties of the curve and polygon functions *)

RECURSIVE Factorial(_)
Factorial(n) == IF n <= 1 THEN 1 ELSE n * Factorial(n - 1)

\* C16: binomial_coefficient(n, k) returns 0 when k < 0 or k > n and otherwise
\* the integer c with c * k! * (n-k)! = n!, the same as for (n, n-k); (5, 2)
\* gives 10; and at every iteration of its loop result * (n - i) is a multiple
\* of i + 1.
C16_Binomial ==
    /\ last.op = "binomial_coefficient" =>
          LET n == last.args[1]
              k == last.args[2]
              c == last.ret[1]
          IN  /\ (k < 0 \/ k > n) => c = 0
              /\ (0 <= k /\ k <= n) =>
                    /\ c * Factorial(k) * Factorial(n - k) = Factorial(n)
                    /\ c = binomial_coefficient(n, n - k)
              /\ (n = 5 /\ k = 2) => c = 10
    /\ (frame.pc = "loop" /\ frame.i < frame.k) =>
          (frame.result * (frame.n - frame.i)) % (frame.i + 1) = 0

\* binomial_coefficient(5, 2) has run its two iterations and returned 10
C16_Witness ==
    /\ last.op = "binomial_coefficient" /\ last.args = <<5, 2>> /\ last.ret = <<10>>
    /\ frame.pc = "idle"

\* the loop of binomial_coefficient(11, 5) is about to divide 165 * 8 by 4
C16_WitnessLoop ==
    /\ frame.pc = "loop" /\ frame.args = <<11, 5>> /\ frame.i = 3 /\ frame.result = 165

\* the vertices (1-based) of the polygon whose distance to p is below radius
Within(p, radius) ==
    { i \in 1..Len(polygon) : radius > 0 /\ distance2(p, polygon[i]) < radius * radius }

\* C17: nearest_vertex(p, radius) returns None when no vertex of the polygon is
\* at a distance below radius from p, and otherwise the index of a vertex at
\* a distance below radius that no other such vertex is closer than.
C17_NearestVertex ==
    last.op = "nearest_vertex" =>
        LET p == last.args[1]
            inside == Within(p, last.args[2])
        IN  IF inside = {} THEN last.ret = None
            ELSE /\ last.ret # None
                 /\ last.ret[1] + 1 \in inside
                 /\ \A j \in inside :
                       distance2(p, polygon[last.ret[1] + 1]) <= distance2(p, polygon[j])

\* C18: generate_bezier_curve(controls, samples, weights) returns the control
\* points themselves when there are fewer than two; otherwise, whatever
\* samples is, it returns samples + 1 points (none when samples + 1 is
\* negative), the i-th (i = 0..samples) being
\* the rational evaluator's point at t = i/samples when weights is a list as
\* long as controls, and the polynomial evaluator's point at t = i/samples in
\* every other case.
C18_GenerateCurve ==
    last.op = "generate_bezier_curve" =>
        LET controls == last.args[1]
            samples == last.args[2]
            weights == last.args[3]
        IN  /\ last.status = "ok"
            /\ IF Len(controls) < 2
               THEN last.ret = controls
               ELSE /\ Len(last.ret) = Max(samples + 1, 0)
                    /\ \A j \in 1..Len(last.ret) :
                          last.ret[j] =
                             IF weights[1] /\ Len(weights[2]) = Len(controls)
                             THEN rational_bezier_curve_point(controls, weights[2],
                                                              <<j - 1, samples>>)
                             ELSE bezier_curve_point(controls, <<j - 1, samples>>)

----------------------------------------------------------------------------
(* Properties of the tokenizer *)

RECURSIVE Decomment(_, _, _)
\* file from byte i on with every comment, the '#' and what follows it up to
\* the end of the line, replaced by one space
Decomment(file, i, comment) ==
    IF i > Len(file) THEN <<>>
    ELSE IF comment
    THEN IF file[i] \in {10, 13} THEN <<file[i]>> \o Decomment(file, i + 1, FALSE)
         ELSE Decomment(file, i + 1, TRUE)
    ELSE IF file[i] = 35 THEN <<32>> \o Decomment(file, i + 1, TRUE)
    ELSE <<file[i]>> \o Decomment(file, i + 1, FALSE)

\* what read_ppm makes of an ASCII file: the exception raised, or "ok" with
\* the width, height, maxValue and samples parsed
Parsed(file) ==
    LET h == _read_header(file, 0)
        r == _read_ascii_pixels(file, h.pos, h.width * h.height * 3, h.max_value)
    IN  IF ~h.ok THEN <<h.err>>
        ELSE IF ~r.ok THEN <<r.err>>
        ELSE <<"ok", h.width, h.height, h.max_value, r.data>>

\* C19: right after read_ppm of a P3 file, the outcome (the error, or the
\* width, height, maxValue and samples) is the outcome of parsing the same
\* file with each comment replaced by a single space.
C19_CommentIsSeparator ==
    ( /\ last.op = "read_ppm" /\ last.dst = "a"
      /\ Len(disk) >= 2 /\ SubSeq(disk, 1, 2) = <<80, 51>> )
        => /\ Parsed(disk) = Parsed(Decomment(disk, 1, FALSE))
           /\ last.status = Parsed(disk)[1]
           /\ last.status = "ok" => Dat("a") = Parsed(disk)[5]

----------------------------------------------------------------------------
(* Properties of the equalization lookup table *)

\* C21: right after histogram_equalization(img, c) on a single channel c, with
\* cdf the cumulative histogram of c in img and cdfMin its value at the lowest
\* occupied intensity: the result's data is img's when cdfMin >= totalPixels;
\* otherwise every sample v of c has become
\* clamp(round((cdf[v] - cdfMin) * 255 / (totalPixels - cdfMin))), samples
\* with a larger v are not mapped below samples with a smaller one, and the
\* samples of the other channels are img's.
C21_EqualizeChannel ==
    (last.op = "histogram_equalization" /\ last.args[1] \in {0, 1, 2}) =>
        LET c == last.args[1]
            src == Dat(last.src)
            dst == Dat(last.dst)
            hist == compute_histogram(src, c)
            occ == Occupied(hist)
            total == Img(last.src).width * Img(last.src).height
            cdfMin == CdfMin(src, c)
        IN  /\ last.status = "ok"
            /\ Len(dst) = Len(src)
            /\ IF cdfMin >= total
               THEN dst = src
               ELSE /\ \A v \in occ :
                          \A i \in ChannelIdx(src, c) :
                              src[i] = v =>
                                  dst[i] = clamp(Img(last.src).max_value,
                                                 (Cdf(hist, occ, v) - cdfMin) * 255,
                                                 total - cdfMin)
                    /\ \A i, j \in ChannelIdx(src, c) : src[i] <= src[j] => dst[i] <= dst[j]
                    /\ \A i \in 1..Len(src) : i \notin ChannelIdx(src, c) => dst[i] = src[i]

----------------------------------------------------------------------------
(* Properties of the generic convolution *)

\* the divisor of a convolution: the supplied one, else the kernel's weight
\* sum, else 1 when that sum is zero (supplied = 0 stands for none supplied)
DivisorOf(kernel, supplied) ==
    IF supplied # 0 THEN supplied
    ELSE IF KernelSum(kernel) = 0 THEN 1 ELSE KernelSum(kernel)

RECURSIVE WindowSum(_, _, _, _, _, _, _)
\* the sum, over the kernel positions of the set todo, of weight times the
\* sample of channel c at the position (x + kx - radius, y + ky - radius) of
\* img brought into the image by clamping each coordinate
WindowSum(img, data, kernel, x, y, c, todo) ==
    IF todo = {} THEN 0
    ELSE LET k == CHOOSE k \in todo : TRUE
             radius == Len(kernel) \div 2
             nx == Max(0, Min(img.width - 1, x + k[1] - radius))
             ny == Max(0, Min(img.height - 1, y + k[2] - radius))
         IN  kernel[k[2] + 1][k[1] + 1] * data[(ny * img.width + nx) * 3 + c + 1]
               + WindowSum(img, data, kernel, x, y, c, todo \ {k})

\* C22: right after custom_convolution(img, kernel, divisor, offset) with a
\* square kernel of odd side, the call has returned a buffer of img's shape
\* whose sample of channel c at (x, y) is clamp(S / D + offset), S the sum over
\* the kernel positions of weight times the sample of img at the coordinates
\* clamped into the image, D the supplied divisor, or the kernel's weight sum
\* when none is supplied, or 1 when that sum is zero.
C22_Convolution ==
    (last.op = "custom_convolution" /\ SquareOdd(last.args[1])) =>
        LET img == Img(last.src)
            src == Dat(last.src)
            dst == Dat(last.dst)
            kernel == last.args[1]
            offset == last.args[3]
            D == DivisorOf(kernel, last.args[2])
            size == Len(kernel)
        IN  /\ last.status = "ok"
            /\ Img(last.dst).width = img.width /\ Img(last.dst).height = img.height
            /\ Len(dst) = Len(src)
            /\ \A x \in 0..(img.width - 1), y \in 0..(img.height - 1), c \in 0..2 :
                   dst[(y * img.width + x) * 3 + c + 1] =
                       clamp(img.max_value,
                             WindowSum(img, src, kernel, x, y, c,
                                       (0..(size - 1)) \X (0..(size - 1))) * offset[2]
                               + offset[1] * D,
                             D * offset[2])

\* the kernel of three columns -1, 0, 1 (weight sum 0, so divisor 1) on the 2x1
\* image (255,128,0),(10,10,10): both output pixels take their left or right
\* neighbour from the replicated edge and come out as (0, 0, 30)
C22_Witness ==
    /\ last.op = "custom_convolution" /\ last.status = "ok"
    /\ last.args = << << <<-1, 0, 1>>, <<-1, 0, 1>>, <<-1, 0, 1>> >>, 0, <<0, 1>> >>
    /\ Dat(last.src) = <<255, 128, 0, 10, 10, 10>>
    /\ Dat(last.dst) = <<0, 0, 30, 0, 0, 30>>

\* a supplied divisor 4 and offset 128.5 with the kernel of weight sum 2
C22_WitnessDivisor ==
    /\ last.op = "custom_convolution" /\ last.status = "ok"
    /\ last.args = << << <<0, 0, 0>>, <<0, 2, 0>>, <<0, 0, 0>> >>, 4, <<257, 2>> >>
    /\ Dat(last.src) = <<10, 10, 10>>
    /\ Dat(last.dst) = <<134, 134, 134>>

----------------------------------------------------------------------------
(* Properties of the median filter *)

\* the samples of channel c in the size x size window around (x, y), the
\* coordinates outside the image clamped to its nearest column and row
Neighbourhood(img, data, size, x, y, c) ==
    [k \in 1..(size * size) |->
        LET nx == Max(0, Min(img.width - 1, x + ((k - 1) % size) - (size \div 2)))
            ny == Max(0, Min(img.height - 1, y + ((k - 1) \div size) - (size \div 2)))
        IN  data[(ny * img.width + nx) * 3 + c + 1]]

RECURSIVE Sorted(_)
\* q in non-decreasing order
Sorted(q) ==
    IF q = <<>> THEN <<>>
    ELSE LET lo == SetMin({ q[k] : k \in 1..Len(q) })
             at == SetMin({ k \in 1..Len(q) : q[k] = lo })
         IN  <<lo>> \o Sorted(SubSeq(q, 1, at - 1) \o SubSeq(q, at + 1, Len(q)))

\* C23: right after median_filter(img, size) with an odd size, the call has
\* returned a buffer of img's shape in which the sample of each channel at
\* each pixel is the middle element of the sorted size*size samples of that
\* channel in the pixel's edge-replicated window of img; it is therefore one
\* of the window's samples, and the data of a uniform image comes back equal.
C23_MedianFilter ==
    (last.op = "median_filter" /\ last.args[1] % 2 = 1) =>
        LET img == Img(last.src)
            src == Dat(last.src)
            dst == Dat(last.dst)
            size == last.args[1]
        IN  /\ last.status = "ok"
            /\ Img(last.dst).width = img.width /\ Img(last.dst).height = img.height
            /\ Len(dst) = Len(src)
            /\ \A x \in 0..(img.width - 1), y \in 0..(img.height - 1), c \in 0..2 :
                   LET win == Neighbourhood(img, src, size, x, y, c)
                       out == dst[(y * img.width + x) * 3 + c + 1]
                   IN  /\ Len(win) = size * size
                       /\ out = Sorted(win)[((size * size) \div 2) + 1]
                       /\ \E k \in 1..Len(win) : win[k] = out
            /\ Uniform(src) => dst = src

\* the 3x3 median of the row (255,128,0),(10,10,10),(0,0,200): the middle
\* pixel becomes (10,10,10) and the outer ones take the median of two copies
\* of themselves and their neighbour
C23_Witness ==
    /\ last.op = "median_filter" /\ last.status = "ok" /\ last.args = <<3>>
    /\ Img(last.src).width = 3 /\ Img(last.src).height = 1
    /\ Dat(last.src) = <<10, 10, 10, 255, 128, 0, 0, 0, 200>>
    /\ Dat(last.dst) = <<10, 10, 10, 10, 10, 10, 0, 0, 200>>

----------------------------------------------------------------------------
(* Properties of the threshold selection *)

\* the number of pixels of data whose luminance is at most i
Cumulative(data, i) ==
    Cardinality({ k \in PixelIdx(data) : Luminance(data[k], data[k + 1], data[k + 2]) <= i })

\* data binarized at threshold t: 255 where the luminance is at least t, else 0
BinarizedAt(data, t) ==
    [i \in 1..Len(data) |->
        LET base == i - ((i - 1) % 3)
        IN  IF Luminance(data[base], data[base + 1], data[base + 2]) >= t THEN 255 ELSE 0]

\* C24: threshold_percent_black(img, p) raises ValueError and builds no buffer
\* unless 0 <= p <= 100; otherwise its result is img binarized at the lowest
\* intensity at which the cumulative luminance count reaches
\* round(totalPixels * p / 100), and at 0 when no intensity reaches it.
C24_PercentBlackThreshold ==
    (last.op = "threshold_percent_black") =>
        LET img == Img(last.src)
            src == Dat(last.src)
            p == last.args[1]
            target == RoundHalfEven(img.width * img.height * p, 100)
            reached == { i \in 0..255 : Cumulative(src, i) >= target }
            t == IF reached = {} THEN 0 ELSE SetMin(reached)
        IN  IF ~(0 <= p /\ p <= 100)
            THEN last.status = "ValueError" /\ ~Exists(last.dst)
            ELSE last.status = "ok" /\ Dat(last.dst) = BinarizedAt(src, t)

----------------------------------------------------------------------------
(* Properties of the iterative mean threshold *)

\* luminance sum and pixel count of the pixels of data with lo <= luminance < hi
LumSum(data, lo, hi) ==
    LET hist == compute_histogram_grayscale(data)
    IN  WeightedSum(hist, Occupied(hist), lo, hi)

LumCount(data, lo, hi) ==
    LET hist == compute_histogram_grayscale(data)
    IN  CountSum(hist, Occupied(hist), lo, hi)

\* C25: every step of a threshold_mean_iterative call is one of these: the
\* call enters its loop with threshold round(totalLuminanceSum/totalPixels);
\* an iteration ends the loop with the threshold unchanged when no pixel is
\* below it or none is at or above it, or when round((meanBelow+meanAbove)/2)
\* equals it, and replaces the threshold by that value otherwise; no
\* iteration starts after max_iterations of them; and the buffer returned is
\* the image binarized at the threshold the loop ended with.
C25_MeanIterativeSteps ==
    [][ LET data == Dat(iter'.src)
            t == iter.threshold
            sb == LumSum(Dat(iter.src), 0, t)
            cb == LumCount(Dat(iter.src), 0, t)
            sa == LumSum(Dat(iter.src), t, 256)
            ca == LumCount(Dat(iter.src), t, 256)
        IN  /\ (iter.pc = "idle" /\ iter'.pc = "loop") =>
                  /\ iter'.iterations = 0
                  /\ iter'.threshold =
                        RoundHalfEven(LumSum(data, 0, 256), Len(data) \div 3)
            /\ (iter.pc = "loop" /\ iter'.pc \in {"loop", "return"}) =>
                  /\ iter.iterations < iter.max_iterations
                  /\ iter'.threshold =
                        IF cb = 0 \/ ca = 0 THEN t
                        ELSE RoundHalfEven(sb * ca + sa * cb, 2 * cb * ca)
                  /\ (iter'.pc = "return") <=> (iter'.threshold = t)
            /\ (iter.pc # "idle" /\ iter'.pc = "idle") =>
                  /\ iter.pc = "return" \/ iter.iterations = iter.max_iterations
                  /\ last'.op = "threshold_mean_iterative" /\ last'.status = "ok"
                  /\ heap'[bufs'[last'.dst].ref] = BinarizedAt(Dat(iter.src), t) ]_vars

\* C30: a threshold_mean_iterative call on an image with pixels, whatever
\* max_iterations >= 0, holds an integer threshold in 0..255 at every
\* iteration and runs at most max_iterations iterations; the call in progress
\* always comes to its return, and its threshold_manual call never raises.
C30_MeanIterativeTerminates ==
    /\ [](iter.pc # "idle" =>
            /\ iter.threshold \in 0..255
            /\ iter.iterations <= iter.max_iterations)
    /\ [](last.op = "threshold_mean_iterative" => last.status = "ok")
    /\ (iter.pc # "idle") ~> (iter.pc = "idle" /\ last.op = "threshold_mean_iterative")

\* the third iteration of the call on three black pixels, (15,15,15) and
\* (60,60,60) is about to start: the thresholds so far were 15, 18 and 31
C30_Witness ==
    /\ iter.pc = "loop" /\ iter.max_iterations = 100
    /\ Dat(iter.src) = <<0, 0, 0, 0, 0, 0, 0, 0, 0, 15, 15, 15, 60, 60, 60>>
    /\ iter.iterations = 2 /\ iter.threshold = 31

\* the same call with max_iterations = 1 has returned after one iteration,
\* the image binarized at 18
C30_WitnessExhausted ==
    /\ last.op = "threshold_mean_iterative" /\ last.status = "ok" /\ last.args = <<1>>
    /\ iter.pc = "idle"
    /\ Dat(last.src) = <<0, 0, 0, 0, 0, 0, 0, 0, 0, 15, 15, 15, 60, 60, 60>>
    /\ Dat(last.dst) = <<0, 0, 0, 0, 0, 0, 0, 0, 0, 0, 0, 0, 255, 255, 255>>

----------------------------------------------------------------------------
(* Properties of the threshold searches *)

\* the candidates t of 1..254 that are not skipped
Qualifying(method, hist, total_pixels) ==
    { t \in 1..254 : Candidate(method, hist, total_pixels, t).ok }

\* score a is strictly better than score b: a greater entropy, a smaller error
Better(method, a, b) ==
    IF method = "threshold_entropy" THEN LessQ(b, a) ELSE LessQ(a, b)

\* the qualifying candidates that no qualifying candidate beats
BestCandidates(method, hist, total_pixels) ==
    LET Q == Qualifying(method, hist, total_pixels)
        score == [t \in Q |-> Candidate(method, hist, total_pixels, t).score]
    IN  { t \in Q : \A u \in Q : ~Better(method, score[u], score[t]) }

\* C26: a search of threshold_entropy, threshold_minimum_error or
\* threshold_fuzzy_minimum_error starts at candidate t = 1 and goes through the
\* candidates one by one in increasing order up to 254; a candidate that does
\* not qualify leaves the kept threshold and score alone; a qualifying one
\* replaces them exactly when its score is strictly better than the best so far
\* (or it is the first to qualify); the search returns the image binarized at
\* the kept threshold, which is the lowest of the qualifying candidates with the
\* best score when there is one; the kept threshold is never 0 or 255.
C26_ThresholdSearch ==
    /\ [](search.pc = "loop" => search.t \in 1..255 /\ search.best_threshold \in 1..254)
    /\ [][/\ (search.pc = "idle" /\ search'.pc = "loop") =>
                search'.t = 1 /\ search'.best = <<>>
          /\ (search.pc = "loop" /\ search'.pc = "loop") =>
                LET c == Candidate(search.method, search.hist,
                                   Img(search.src).width * Img(search.src).height, search.t)
                    replaced == /\ search'.best_threshold = search.t
                                /\ search'.best = c.score
                    kept == /\ search'.best_threshold = search.best_threshold
                            /\ search'.best = search.best
                IN  /\ search.t <= 254
                    /\ search'.t = search.t + 1
                    /\ IF ~c.ok THEN kept
                       ELSE IF search.best = <<>> THEN replaced
                       ELSE IF Better(search.method, c.score, search.best) THEN replaced
                       ELSE kept
          /\ (search.pc = "loop" /\ search'.pc = "idle") =>
                LET B == BestCandidates(search.method, search.hist,
                                        Img(search.src).width * Img(search.src).height)
                IN  /\ search.t = 255
                    /\ B # {} => search.best_threshold = SetMin(B)
                    /\ last'.op = search.method /\ last'.status = "ok"
                    /\ heap'[bufs'[last'.dst].ref]
                          = BinarizedAt(Dat(search.src), search.best_threshold)]_vars

\* threshold_entropy has returned for pixels of luminance 0, 1 and 4: the
\* candidates 1, 2, 3 and 4 all have entropy 1, and the image is binarized at 1
C26_Witness ==
    /\ last.op = "threshold_entropy" /\ last.status = "ok"
    /\ Dat(last.src) = <<0, 0, 0, 1, 1, 1, 4, 4, 4>>
    /\ Dat(last.dst) = <<0, 0, 0, 255, 255, 255, 255, 255, 255>>
    /\ BestCandidates("threshold_entropy", compute_histogram_grayscale(Dat(last.src)), 3)
          = {1, 2, 3, 4}

\* threshold_fuzzy_minimum_error on luminances 0, 0, 1, 2, 3, 4 has replaced
\* its kept candidate twice by a strictly better one
C26_WitnessReplaced ==
    /\ search.pc = "loop" /\ search.method = "threshold_fuzzy_minimum_error"
    /\ search.t = 255 /\ search.best_threshold = 3
    /\ Qualifying(search.method, search.hist, Len(Dat(search.src)) \div 3) = {1, 2, 3}

\* C28: when no candidate of 1..254 qualifies, each of the three searches
\* returns the image binarized at 128; that is so for every image whose pixels
\* all have one luminance L, and the result is then all 0 when L < 128 and all
\* 255 when L >= 128.
C28_FallbackThreshold ==
    (last.op \in Methods /\ last.status = "ok") =>
        LET data == Dat(last.src)
            hist == compute_histogram_grayscale(data)
            occ == Occupied(hist)
            Q == Qualifying(last.op, hist, Len(data) \div 3)
        IN  /\ Q = {} => Dat(last.dst) = BinarizedAt(data, 128)
            /\ Cardinality(occ) = 1 =>
                  /\ Q = {}
                  /\ \A L \in occ :
                        Dat(last.dst) = [i \in 1..Len(data) |-> IF L < 128 THEN 0 ELSE 255]

\* threshold_minimum_error has returned for two pixels of luminance 200
C28_Witness ==
    /\ last.op = "threshold_minimum_error" /\ last.status = "ok"
    /\ Dat(last.src) = <<200, 200, 200, 200, 200, 200>>
    /\ Dat(last.dst) = <<255, 255, 255, 255, 255, 255>>

\* threshold_fuzzy_minimum_error has returned for a pixel of luminance 4
C28_WitnessDark ==
    /\ last.op = "threshold_fuzzy_minimum_error" /\ last.status = "ok"
    /\ Dat(last.src) = <<4, 4, 4>> /\ Dat(last.dst) = <<0, 0, 0>>

\* threshold_minimum_error has returned for luminances 0 and 1: both variances
\* are 0 at the only candidate with two non-empty sides
C28_WitnessNoVariance ==
    /\ last.op = "threshold_minimum_error" /\ last.status = "ok"
    /\ Dat(last.src) = <<0, 0, 0, 1, 1, 1>> /\ Dat(last.dst) = <<0, 0, 0, 0, 0, 0>>

----------------------------------------------------------------------------
(* Properties of the codec, continued *)

\* C27: a read_ppm that returns has built a buffer of positive width and
\* positive height; a header with a width or height of 0 or less is rejected.
C27_PositiveDimensions ==
    (last.op = "read_ppm" /\ last.status = "ok") =>
        /\ Exists(last.dst)
        /\ Img(last.dst).width > 0
        /\ Img(last.dst).height > 0

RECURSIVE JoinSpaced(_, _)
\* the decimal numerals of values[k..] joined by single spaces
JoinSpaced(values, k) ==
    IF k > Len(values) THEN <<>>
    ELSE IF k = Len(values) THEN str(values[k])
    ELSE str(values[k]) \o <<32>> \o JoinSpaced(values, k + 1)

RECURSIVE TextLines(_, _, _)
\* one line per row from row y on: the 3 * width values of the row, in order,
\* joined by single spaces and ended by "\n"
TextLines(img, data, y) ==
    IF y >= img.height THEN <<>>
    ELSE JoinSpaced(SubSeq(data, y * img.width * 3 + 1, (y + 1) * img.width * 3), 1)
             \o <<10>> \o TextLines(img, data, y + 1)

\* C29: for a buffer with max_value 255, write_ppm(buffer, binary=False) leaves
\* a file made of the P3 header and one text line per image row, the line of a
\* row holding its width "r g b" triples from left to right separated by single
\* spaces; and read_ppm of that file returns a buffer with the same width,
\* height, max_value and data.
C29_AsciiRoundTrip ==
    /\ (last.op = "write_ppm" /\ last.args = <<FALSE>> /\ Img("a").max_value = 255) =>
          disk = <<80, 51, 10>> \o str(Img("a").width) \o <<32>> \o str(Img("a").height)
                     \o <<10, 50, 53, 53, 10>> \o TextLines(Img("a"), Dat("a"), 0)
    /\ (last.op = "read_ppm" /\ last.dst = "b" /\ disk[2] = 51 /\ Img("a").max_value = 255) =>
          /\ last.status = "ok"
          /\ Img("b").width = Img("a").width
          /\ Img("b").height = Img("a").height
          /\ Img("b").max_value = 255
          /\ Dat("b") = Dat("a")
          /\ bufs["b"].ref # bufs["a"].ref

\* a 2x1 image has been written as 'P3\n2 1\n255\n255 128 0 10 10 10\n' and
\* read back
C29_Witness ==
    /\ last.op = "read_ppm" /\ last.dst = "b" /\ last.status = "ok"
    /\ disk = <<80, 51, 10, 50, 32, 49, 10, 50, 53, 53, 10,
                50, 53, 53, 32, 49, 50, 56, 32, 48, 32, 49, 48, 32, 49, 48, 32, 49, 48, 10>>
    /\ Img("a").width = 2 /\ Img("a").height = 1
    /\ Dat("a") = <<255, 128, 0, 10, 10, 10>>
    /\ Dat("b") = <<255, 128, 0, 10, 10, 10>>

\* a 1x2 image has been written on two lines, '0 0 0\n200 200 200\n'
C29_WitnessTwoRows ==
    /\ last.op = "write_ppm" /\ last.args = <<FALSE>>
    /\ disk = <<80, 51, 10, 49, 32, 50, 10, 50, 53, 53, 10,
                48, 32, 48, 32, 48, 10, 50, 48, 48, 32, 50, 48, 48, 32, 50, 48, 48, 10>>
    /\ Dat("a") = <<0, 0, 0, 200, 200, 200>>

====
